---- MODULE Spec2Model ----
(***************************************************************************)
(* Verification model of the DP3 direction-dependent gain calibration      *)
(* core: the stopping criterion of the iteration engine (SolverBase), the  *)
(* iteration loop with its parallel channel-block tasks, the              *)
(* solution-interval driver (BdaDdeCal) and its channel blocks, the way of *)
(* the buffers through BdaDdeCal into the solver buffer, the measures      *)
(* mutex of the predict steps (OnePredict) and SolutionInterval; and of    *)
(* the steps around it: MultiResultStep, the chunk counters and the        *)
(* parallel loop of the Demixer, the split of the baselines over the       *)
(* threads of OnePredict, and the chain of steps that DP3.cc builds.       *)
(***************************************************************************)
EXTENDS Integers, Naturals, Sequences, FiniteSets, TLC

(***************************************************************************)
(* Bounds of the model                                                     *)
(***************************************************************************)
\* largest value of min_iterations_ / max_iterations_ that is configured
MaxIterBound == 3

IterRange == 0..MaxIterBound

Max2(a, b) == IF a >= b THEN a ELSE b

(***************************************************************************)
(* State of the iteration engine (SolverBase)                              *)
(***************************************************************************)
VARIABLES
  min_iterations_,        \* SolverBase::min_iterations_
  max_iterations_,        \* SolverBase::max_iterations_
  detect_stalling_,       \* SolverBase::detect_stalling_
  pc,                     \* position of the engine
  iteration,              \* the iteration count handed to the criterion
  has_converged,          \* result of AssignSolutions in this iteration
  constraints_satisfied,  \* AND of the constraints' convergence flags
  stall_answer,           \* what DetectStall answers for the magnitudes
  stall_consulted,        \* whether DetectStall was called in the last test
  stop                    \* last value returned by ReachedStoppingCriterion

cfgVars == <<min_iterations_, max_iterations_, detect_stalling_>>
engineVars == <<pc, iteration, has_converged, constraints_satisfied,
                stall_answer, stall_consulted, stop>>

(***************************************************************************)
(* State of one solve with its channel-block tasks                         *)
(***************************************************************************)
VARIABLES
  n_threads_,        \* SolverBase::n_threads_
  constraints_,      \* SolverBase::constraints_, the chain in order
  buffer_,           \* SolverBase::buffer_: weighted data/model, per block
  solutions,         \* solutions[ch_block], the in/out argument of Solve
  next_solutions,    \* the candidate solutions of the running iteration
  task,              \* state of the block task of the running iteration
  step_magnitudes,   \* history of step magnitudes
  steps_done,        \* per block: number of finished step updates
  constraints_done   \* number of finished runs of the constraint chain

solveVars == <<n_threads_, constraints_, buffer_, solutions, next_solutions,
               task, step_magnitudes, steps_done, constraints_done>>

(***************************************************************************)
(* State of the solution-interval driver (BdaDdeCal)                       *)
(***************************************************************************)
VARIABLES
  propagate_solutions,       \* settings_.propagate_solutions
  propagate_converged_only,  \* settings_.propagate_converged_only
  flag_unconverged,          \* settings_.flag_unconverged
  flag_diverged_only,        \* settings_.flag_diverged_only
  subtract,                  \* settings_.subtract
  n_pol,                     \* solver_->NSolutionPolarizations()
  solutions_,                \* BdaDdeCal::solutions_, one entry per interval
  iterations_,               \* BdaDdeCal::iterations_
  approx_iterations_,        \* BdaDdeCal::approx_iterations_
  constraint_solutions_,     \* BdaDdeCal::constraint_solutions_
  subtracted,                \* intervals whose corrected model was subtracted
                             \* from the data held by solver_buffer_
  initial_guess,             \* per interval: the solutions as handed to Solve
  solve_results              \* per interval: the iteration at which Solve
                             \* stopped, whether it had converged, and the
                             \* SolveResult it returned

settingsVars == <<propagate_solutions, propagate_converged_only,
                  flag_unconverged, flag_diverged_only, subtract, n_pol>>

driverVars == <<settingsVars, solutions_, iterations_, approx_iterations_,
                constraint_solutions_, subtracted, initial_guess,
                solve_results>>

\* The channel blocks of BdaDdeCal, set up by updateInfo
VARIABLES
  info,                      \* Step::info(): nchan(), chanFreqs(0) and
                             \* chanWidths(0)
  n_channels,                \* settings_.n_channels
  chan_block_start_freqs_,   \* BdaDdeCal::chan_block_start_freqs_
  channel_blocks             \* the locals of the last DetermineChannelBlocks

partitionVars == <<info, n_channels, chan_block_start_freqs_, channel_blocks>>

\* The predict steps that run side by side, OnePredict::process
VARIABLES
  moving_phase_ref_,         \* OnePredict::moving_phase_ref_
  apply_beam_,               \* OnePredict::apply_beam_
  measures_mutex_,           \* OnePredict::measures_mutex_: "nullptr" or
                             \* "shared", the one mutex given to the steps
  predict_pc,                \* per step: position of its process() call
  measures_owner,            \* the step whose process() holds the measures
                             \* mutex, 0 when it is free
  converting,                \* per step: its threads that are inside a
                             \* measures conversion
  beam_done                  \* per step: the pool threads that have
                             \* returned from addBeamToData

measuresVars == <<moving_phase_ref_, apply_beam_, measures_mutex_, predict_pc,
                  measures_owner, converting, beam_done>>

\* A SolutionInterval and the buffers handed to it, tSolutionInterval.cc
VARIABLES
  buffer_size,               \* the argument of the constructor
  solInt,                    \* the interval: the buffer objects it holds,
                             \* each known by its address
  pushed                     \* the addresses of the buffers handed to
                             \* PushBack, in the order of the calls

intervalVars == <<buffer_size, solInt, pushed>>

\* BdaDdeCal as a step: its construction, updateInfo, process and finish
VARIABLES
  step_state,                \* how far the step has come: "parset",
                             \* "constructed", "ready", "finished", or
                             \* "construction_failed" after a throw of the
                             \* constructor, "initialization_failed" after
                             \* one of updateInfo
  directions,                \* settings_.directions.size()
  only_predict,              \* settings_.only_predict
  n_antennas,                \* info().antennaUsed().size()
  buffer_interval,           \* per buffer given to process, in order: the
                             \* solution interval its time falls in
  predict_held,              \* per direction: the buffers its predict
                             \* sub-step was given and has not passed on
  data_buffers_,             \* BdaDdeCal::data_buffers_
  model_buffers_,            \* BdaDdeCal::model_buffers_; 0 is a null slot
  solver_buffer_,            \* BdaDdeCal::solver_buffer_
  appended,                  \* the calls of AppendAndWeight so far
  solve_calls,               \* the calls of SolveCurrentInterval so far
  next_step,                 \* the calls made on getNextStep() so far
  assert_failed,             \* the lines of the asserts of the step that
                             \* did not hold
  solver_,                   \* BdaDdeCal::solver_: "null", or the solver
                             \* with what its constraint solvers carry
  solution_writer_           \* BdaDdeCal::solution_writer_ is set

pipelineVars == <<step_state, directions, only_predict, n_antennas,
                  buffer_interval, predict_held, data_buffers_,
                  model_buffers_, solver_buffer_, appended, solve_calls,
                  next_step, assert_failed, solver_, solution_writer_>>

\* A MultiResultStep, MultiResultStep.cc
VARIABLES
  buffers_,                  \* MultiResultStep::buffers_; 0 is a null slot
  size_,                     \* MultiResultStep::size_
  next_is_null,              \* getNextStep() is a NullStep
  result_calls               \* the calls of process so far, each with what
                             \* it found and what it did

multiResultVars == <<buffers_, size_, next_is_null, result_calls>>

\* The Demixer, DPPP/src/Demixer.cc
VARIABLES
  demix_pc,                  \* where the Demixer is: "constructed", "ready",
                             \* "failed" (an ASSERTSTR of updateInfo threw),
                             \* "process" or "finish" (inside the parallel
                             \* loop of demix called from there), "finished"
  maxThreads,                \* OpenMP::maxThreads()
  info_ntime,                \* infoIn.ntime(), the time slots of the input
  averager_clamps,           \* the Averager steps limit their time step to
                             \* the time slots of the input
  itsNModel,                 \* the Demixer's fields of the same names
  itsNTimeChunk,
  itsNTimeChunkSubtr,
  itsNTimeAvg,
  itsNTimeAvgSubtr,
  itsNTimeDemix,
  itsNTimeIn,
  itsNTimeOut,
  itsNTimeOutSubtr,
  itsTimeIndex,
  itsFactors,                \* itsFactors.size()
  itsFactorsSubtr,           \* itsFactorsSubtr.size()
  itsAvgResults,             \* the buffers that each step of itsAvgResults
                             \* holds: [step, times, size, capacity]
  itsAvgResultSubtr,         \* the same for itsAvgResultSubtr
  itsUnknowns,               \* slice index -> the solution stored there
  itsLastKnowns,
  threadStorage,             \* thread -> its ThreadPrivateStorage::unknowns
  slots_todo,                \* iterations of the parallel loop not yet begun
  thread_slot,               \* thread -> the iteration it is in, or NoSlot
  demixer_calls,             \* number of calls of process so far
  chunks_completed,          \* number of chunks completed in process
  factor_writes,             \* the writes to itsFactors and itsFactorsSubtr
  results_received,          \* the buffers given to the MultiResultSteps
  unknown_writes,            \* the copies into itsUnknowns
  start_estimates            \* the estimates that estimate() started from

demixVars == <<demix_pc, maxThreads, info_ntime, averager_clamps, itsNModel,
               itsNTimeChunk, itsNTimeChunkSubtr, itsNTimeAvg,
               itsNTimeAvgSubtr, itsNTimeDemix, itsNTimeIn, itsNTimeOut,
               itsNTimeOutSubtr, itsTimeIndex, itsFactors, itsFactorsSubtr,
               itsAvgResults, itsAvgResultSubtr, itsUnknowns, itsLastKnowns,
               threadStorage, slots_todo, thread_slot, demixer_calls,
               chunks_completed, factor_writes, results_received,
               unknown_writes, start_estimates>>

\* The split of the baselines over the threads, OnePredict.cc:407-442
VARIABLES
  split_pc,                  \* "start", "loop" (in the loop of line 426),
                             \* "done" (past the assert of line 442)
  nBl,                       \* number of baselines
  pool_threads,              \* pool->NThreads()
  n_threads,                 \* the locals of the same names
  thread_index,
  first_baseline,
  baseline_range,            \* thread_index -> <<first, end>>
  split_assert_failed        \* the assert of line 442 failed

baselineSplitVars == <<split_pc, nBl, pool_threads, n_threads, thread_index,
                       first_baseline, baseline_range, split_assert_failed>>

\* The chain of steps that MakeMainSteps builds, DP3.cc:373-423
VARIABLES
  chain_pc,                  \* "parset" (before MakeMainSteps), "made" (it
                             \* returned), "threw" (it threw)
  parset_steps,              \* the steps that the parset asks for
  msOutName,                 \* the msout name of the parset
  input_provided,            \* the fields that the input step provides
  split_rejects_next,        \* Split::setNextStep throws
  step_chain,                \* the steps made, each with its next step;
                             \* step 1 is the input step
  cursor                     \* the step that a walk along getNextStep() is at

chainVars == <<chain_pc, parset_steps, msOutName, input_provided,
               split_rejects_next, step_chain,
               cursor>>

\* the variables of the further steps
lateVars == <<multiResultVars, demixVars, baselineSplitVars, chainVars>>

\* the further steps other than the one named
otherThanMultiResult == <<demixVars, baselineSplitVars, chainVars>>
otherThanDemixer == <<multiResultVars, baselineSplitVars, chainVars>>
otherThanBaselineSplit == <<multiResultVars, demixVars, chainVars>>
otherThanChain == <<multiResultVars, demixVars, baselineSplitVars>>

\* the variables that the further steps leave alone
earlyVars == <<cfgVars, engineVars, solveVars, driverVars, partitionVars,
               measuresVars, intervalVars, pipelineVars>>

\* the variables of the steps around the solver
stepVars == <<measuresVars, intervalVars, pipelineVars, lateVars>>

vars == <<cfgVars, engineVars, solveVars, driverVars, partitionVars, stepVars>>

(***************************************************************************)
(* SolverBase::ReachedStoppingCriterion, SolverBase.h:197-208              *)
(***************************************************************************)
\* variant: DetectStall called whenever stall detection is on
StallConsultedAlways(cs) == detect_stalling_

\* line 201: the guard under which DetectStall is called
StallConsulted(cs) == detect_stalling_ /\ cs

\* lines 200-202: has_stalled; ds is the value DetectStall returns
HasStalled(cs, ds) == IF StallConsulted(cs) THEN ds ELSE FALSE

\* lines 204-206
IsReady(it, hc, cs, ds) ==
  \/ it >= max_iterations_
  \/ (hc /\ cs)
  \/ HasStalled(cs, ds)

\* variant: iteration > max_iterations_ in place of >=
ReachedStoppingCriterionStrictMax(it, hc, cs, ds) ==
  it >= min_iterations_ /\
  (it > max_iterations_ \/ (hc /\ cs) \/ HasStalled(cs, ds))

\* variant: min_iterations_ not looked at
ReachedStoppingCriterionNoMin(it, hc, cs, ds) == IsReady(it, hc, cs, ds)

\* line 207
ReachedStoppingCriterion(it, hc, cs, ds) ==
  it >= min_iterations_ /\ IsReady(it, hc, cs, ds)

(***************************************************************************)
(* Setters, SolverBase.h:100-102, 110-112, 143-145                         *)
(***************************************************************************)
SetMaxIterations(n) ==
  /\ pc \in {"Configure", "Tested"}
  /\ max_iterations_' = n
  /\ pc' = "Configure"
  /\ UNCHANGED <<min_iterations_, detect_stalling_, iteration, has_converged,
                 constraints_satisfied, stall_answer, stall_consulted, stop>>
  /\ UNCHANGED <<solveVars, driverVars, partitionVars, stepVars>>

SetMinIterations(n) ==
  /\ pc \in {"Configure", "Tested"}
  /\ min_iterations_' = n
  /\ pc' = "Configure"
  /\ UNCHANGED <<max_iterations_, detect_stalling_, iteration, has_converged,
                 constraints_satisfied, stall_answer, stall_consulted, stop>>
  /\ UNCHANGED <<solveVars, driverVars, partitionVars, stepVars>>

SetDetectStalling(b) ==
  /\ pc \in {"Configure", "Tested"}
  /\ detect_stalling_' = b
  /\ pc' = "Configure"
  /\ UNCHANGED <<min_iterations_, max_iterations_, iteration, has_converged,
                 constraints_satisfied, stall_answer, stall_consulted, stop>>
  /\ UNCHANGED <<solveVars, driverVars, partitionVars, stepVars>>

\* One call of ReachedStoppingCriterion with arbitrary arguments.
CallReachedStoppingCriterion(it, hc, cs, ds) ==
  /\ pc \in {"Configure", "Tested"}
  /\ iteration' = it
  /\ has_converged' = hc
  /\ constraints_satisfied' = cs
  /\ stall_answer' = ds
  /\ stall_consulted' = StallConsulted(cs)
  /\ stop' = ReachedStoppingCriterion(it, hc, cs, ds)
  /\ pc' = "Tested"
  /\ UNCHANGED cfgVars
  /\ UNCHANGED <<solveVars, driverVars, partitionVars, stepVars>>

(***************************************************************************)
(* The iteration loop of Solve: a do-while loop whose condition is         *)
(* !ReachedStoppingCriterion(iteration, has_converged,                     *)
(* constraints_satisfied, step_magnitudes).  The outcome of an iteration   *)
(* (convergence of the step, of the constraints, answer of DetectStall) is *)
(* left open here: every sequence of outcomes is a behaviour.              *)
(***************************************************************************)
\* guard that keeps the iteration counter finite in the model
IterCap == MaxIterBound + 2

BeginSolve ==
  /\ pc \in {"Configure", "Tested"}
  /\ pc' = "Iterating"
  /\ iteration' = 0
  /\ has_converged' = FALSE
  /\ constraints_satisfied' = FALSE
  /\ stall_answer' = FALSE
  /\ stall_consulted' = FALSE
  /\ stop' = FALSE
  /\ UNCHANGED cfgVars
  /\ UNCHANGED <<solveVars, driverVars, partitionVars, stepVars>>

Iterate(hc, cs, ds) ==
  /\ pc = "Iterating"
  /\ iteration < IterCap
  /\ iteration' = iteration + 1
  /\ has_converged' = hc
  /\ constraints_satisfied' = cs
  /\ stall_answer' = ds
  /\ stall_consulted' = StallConsulted(cs)
  /\ stop' = ReachedStoppingCriterion(iteration + 1, hc, cs, ds)
  /\ pc' = IF ReachedStoppingCriterion(iteration + 1, hc, cs, ds)
           THEN "Stopped" ELSE "Iterating"
  /\ UNCHANGED cfgVars
  /\ UNCHANGED <<solveVars, driverVars, partitionVars, stepVars>>

IterateAny == \E hc \in BOOLEAN, cs \in BOOLEAN, ds \in BOOLEAN : Iterate(hc, cs, ds)

ReturnFromSolve ==
  /\ pc = "Stopped"
  /\ pc' = "Configure"
  /\ UNCHANGED <<cfgVars, iteration, has_converged, constraints_satisfied,
                 stall_answer, stall_consulted, stop>>
  /\ UNCHANGED <<solveVars, driverVars, partitionVars, stepVars>>

EngineInit ==
  /\ min_iterations_ \in IterRange
  /\ max_iterations_ \in IterRange
  /\ detect_stalling_ \in BOOLEAN
  /\ pc = "Configure"
  /\ iteration = 0
  /\ has_converged = FALSE
  /\ constraints_satisfied = FALSE
  /\ stall_answer = FALSE
  /\ stall_consulted = FALSE
  /\ stop = FALSE

EngineNext ==
  \/ \E n \in IterRange : SetMaxIterations(n)
  \/ \E n \in IterRange : SetMinIterations(n)
  \/ \E b \in BOOLEAN : SetDetectStalling(b)
  \/ \E it \in 0..IterCap, hc \in BOOLEAN, cs \in BOOLEAN, ds \in BOOLEAN :
        CallReachedStoppingCriterion(it, hc, cs, ds)
  \/ BeginSolve
  \/ IterateAny
  \/ ReturnFromSolve

\* a criterion test has been made in the current state
Tested == pc = "Tested" \/ (pc \in {"Iterating", "Stopped"} /\ iteration > 0)

(***************************************************************************)
(* Properties of the stopping criterion and the iteration loop             *)
(***************************************************************************)

\* C1: ReachedStoppingCriterion returns true exactly when
\* iteration >= min_iterations and (iteration >= max_iterations, or the step
\* and the constraints have both converged, or a stall was detected), for
\* every combination of its arguments and of the configuration; a stall
\* counts as detected when stall detection is on, the constraints are
\* satisfied and DetectStall answers true.
C1_StoppingCriterion ==
  Tested =>
    (stop <=>
      (/\ iteration >= min_iterations_
       /\ \/ iteration >= max_iterations_
          \/ (has_converged /\ constraints_satisfied)
          \/ (detect_stalling_ /\ constraints_satisfied /\ stall_answer)))

\* C1 witness: a direct call that returns true because of a stall alone.
C1_Witness ==
  /\ pc = "Tested"
  /\ stop
  /\ ~has_converged
  /\ iteration < max_iterations_
  /\ iteration >= min_iterations_
  /\ min_iterations_ > 0
  /\ stall_answer

\* C2 (as stated): the loop stops at an iteration count that is at most
\* max_iterations, for every configuration, min_iterations > max_iterations
\* included.  (Stated for max_iterations >= 1 only, so that the single
\* iteration every solve makes is not what refutes it.)
C2_BoundedByMax ==
  (pc = "Stopped" /\ max_iterations_ >= 1) => iteration <= max_iterations_

\* C2 (amended): every solve that has started reaches the stopped state, and
\* it stops at an iteration count of at most
\* max(1, min_iterations, max_iterations), hence of at most max_iterations
\* whenever min_iterations <= max_iterations and max_iterations >= 1.
C2_TerminatesBounded ==
  /\ [](pc = "Stopped" =>
          iteration <= Max2(1, Max2(min_iterations_, max_iterations_)))
  /\ ((pc = "Iterating") ~> (pc = "Stopped"))

\* C2 witness: a solve with min_iterations > max_iterations that has stopped
\* beyond max_iterations.
C2_Witness ==
  /\ pc = "Stopped"
  /\ min_iterations_ > max_iterations_
  /\ max_iterations_ >= 1
  /\ iteration = min_iterations_

\* C3: the loop never stops at an iteration count below min_iterations; it
\* keeps iterating even when step and constraints are converged, or a stall
\* is reported, in an earlier iteration.
C3_MinIterationsEnforced ==
  /\ pc = "Stopped" => iteration >= min_iterations_
  /\ (pc \in {"Iterating", "Stopped"} /\ iteration >= 1 /\
      iteration < min_iterations_) => (pc = "Iterating" /\ ~stop)

\* C3 witness: step and constraints converged and a stall reported in the
\* very first iteration, and the loop is still iterating.
C3_Witness ==
  /\ pc = "Iterating"
  /\ iteration = 1
  /\ has_converged
  /\ constraints_satisfied
  /\ detect_stalling_
  /\ stall_answer
  /\ min_iterations_ > 1

\* C4: in a test with constraints_satisfied = false, or with stall
\* detection off, DetectStall is not called and the test does not answer
\* "stop" because of a stall: it answers "stop" only for
\* iteration >= max_iterations or for converged step and constraints.
C4_StallOnlyWhenConstraintsConverged ==
  (Tested /\ (~constraints_satisfied \/ ~detect_stalling_)) =>
    /\ ~stall_consulted
    /\ stop => (iteration >= max_iterations_ \/
                (has_converged /\ constraints_satisfied))

\* C4 witness: stall detection is on, DetectStall would answer "stalled",
\* the constraints are not satisfied, and the loop goes on.
C4_Witness ==
  /\ pc = "Iterating"
  /\ iteration >= 1
  /\ iteration >= min_iterations_
  /\ detect_stalling_
  /\ stall_answer
  /\ ~constraints_satisfied
  /\ ~stop

(***************************************************************************)
(* Solve: the iteration loop with its parallel channel-block tasks         *)
(***************************************************************************)
\* number of channel blocks of the solve
NBlocks == 2
\* largest thread count
MaxThreads == 2
\* largest solution / visibility value
MaxVal == 2
\* largest min_iterations_ / max_iterations_ of the parallel solve
SolveIterBound == 2

Blocks == 0..(NBlocks - 1)
Values == 0..MaxVal

Abs(x) == IF x >= 0 THEN x ELSE -x

Min2(a, b) == IF a <= b THEN a ELSE b

RECURSIVE SumOver(_, _)
SumOver(f, S) ==
  IF S = {} THEN 0
  ELSE LET x == CHOOSE y \in S : TRUE IN f[x] + SumOver(f, S \ {x})

RECURSIVE MinOver(_, _)
MinOver(f, S) ==
  LET x == CHOOSE y \in S : TRUE IN
  IF S = {x} THEN f[x] ELSE Min2(f[x], MinOver(f, S \ {x}))

\* One unconstrained update of a solution value towards the value that fits
\* the block's weighted data and model.
Towards(v, target) ==
  IF v < target THEN v + 1 ELSE IF v > target THEN v - 1 ELSE v

\* variant: every task works on the slice of the first block
SliceOfFirst(b) == 0

\* The slice of the solution arrays and of the buffer that the task of
\* channel block b works on.
SliceOf(b) == b

\* variant: the update starts from the candidate of the neighbouring block
PerformIterationFromNeighbour(b, sol, next) ==
  Towards(next[(b + 1) % NBlocks], buffer_[SliceOf(b)])

\* PerformIteration(ch_block, ..., solutions[ch_block],
\* next_solutions[ch_block]): the step update of one block, computed from the
\* current solutions sol; next is the candidate array as it is when the task
\* runs.
PerformIteration(b, sol, next) == Towards(sol[SliceOf(b)], buffer_[SliceOf(b)])

\* What a running block task reads and writes.
TaskReads(b) == {<<"solutions", SliceOf(b)>>, <<"buffer", SliceOf(b)>>}

TaskWrites(b) == {<<"next_solutions", SliceOf(b)>>}

\* The candidate array after the task of block b has stored its update.
StoreUpdate(b, sol, next) ==
  [c \in Blocks |->
     IF <<"next_solutions", c>> \in TaskWrites(b)
     THEN PerformIteration(b, sol, next)
     ELSE next[c]]

\* Constraint::Apply of one constraint on the candidates of all blocks:
\* "smooth" regularises across the blocks, "none" leaves them alone.
ApplyConstraint(c, next) ==
  IF c = "smooth" THEN [b \in Blocks |-> MinOver(next, Blocks)] ELSE next

RECURSIVE ApplyChain(_, _)
ApplyChain(chain, next) ==
  IF chain = <<>> THEN next
  ELSE ApplyChain(Tail(chain), ApplyConstraint(Head(chain), next))

\* The AND of the constraints' convergence flags: a constraint reports
\* convergence when it leaves the candidates as they are.
RECURSIVE ChainSatisfied(_, _)
ChainSatisfied(chain, next) ==
  IF chain = <<>> THEN TRUE
  ELSE /\ ApplyConstraint(Head(chain), next) = next
       /\ ChainSatisfied(Tail(chain), ApplyConstraint(Head(chain), next))

\* AssignSolutions: the step magnitude and the convergence test.
StepMagnitude(sol, next) ==
  SumOver([b \in Blocks |-> Abs(next[b] - sol[b])], Blocks)

\* number of trailing step magnitudes DetectStall compares
StallWindow == 2

\* DetectStall(iteration, step_magnitudes): the step magnitude has stopped
\* decreasing over the trailing window.
DetectStall(it, mags) ==
  /\ it >= StallWindow
  /\ Len(mags) >= StallWindow
  /\ \A k \in 1..(StallWindow - 1) :
       /\ mags[Len(mags) - k] # 0
       /\ mags[Len(mags) - k + 1] = mags[Len(mags) - k]

Running == {b \in Blocks : task[b] = "running"}

\* variant: the parallel loop returns when one block task has finished
SomeBlockDone == \E b \in Blocks : task[b] = "done"

\* The parallel loop over the channel blocks returns when every block task
\* has finished.
AllBlocksDone == \A b \in Blocks : task[b] = "done"

\* A worker thread takes up the task of a block.
TaskStart(b) ==
  /\ pc = "ParallelStep"
  /\ task[b] = "waiting"
  /\ Cardinality(Running) < n_threads_
  /\ task' = [task EXCEPT ![b] = "running"]
  /\ UNCHANGED <<cfgVars, pc, iteration, has_converged, constraints_satisfied,
                 stall_answer, stall_consulted, stop, n_threads_, constraints_,
                 buffer_, solutions, next_solutions, step_magnitudes,
                 steps_done, constraints_done>>
  /\ UNCHANGED <<driverVars, partitionVars, stepVars>>

\* The task of block b finishes its step update.
TaskFinish(b) ==
  /\ task[b] = "running"
  /\ next_solutions' = StoreUpdate(b, solutions, next_solutions)
  /\ task' = [task EXCEPT ![b] = "done"]
  /\ steps_done' = [steps_done EXCEPT ![b] = @ + 1]
  /\ UNCHANGED <<cfgVars, pc, iteration, has_converged, constraints_satisfied,
                 stall_answer, stall_consulted, stop, n_threads_, constraints_,
                 buffer_, solutions, step_magnitudes, constraints_done>>
  /\ UNCHANGED <<driverVars, partitionVars, stepVars>>

\* The parallel loop has returned: the constraint chain starts.
BeginConstraints ==
  /\ pc = "ParallelStep"
  /\ AllBlocksDone
  /\ pc' = "Constraints"
  /\ UNCHANGED <<cfgVars, iteration, has_converged, constraints_satisfied,
                 stall_answer, stall_consulted, stop, solveVars>>
  /\ UNCHANGED <<driverVars, partitionVars, stepVars>>

\* The constraint chain has run over the candidates of all blocks.
ApplyConstraints ==
  /\ pc = "Constraints"
  /\ next_solutions' = ApplyChain(constraints_, next_solutions)
  /\ constraints_satisfied' = ChainSatisfied(constraints_, next_solutions)
  /\ constraints_done' = constraints_done + 1
  /\ pc' = "Assign"
  /\ UNCHANGED <<cfgVars, iteration, has_converged, stall_answer,
                 stall_consulted, stop, n_threads_, constraints_, buffer_,
                 solutions, task, step_magnitudes, steps_done>>
  /\ UNCHANGED <<driverVars, partitionVars, stepVars>>

\* AssignSolutions, iteration++ and the loop condition.
FinishIteration ==
  LET mags == Append(step_magnitudes, StepMagnitude(solutions, next_solutions))
      hc == StepMagnitude(solutions, next_solutions) = 0
      ds == DetectStall(iteration + 1, mags)
      done == ReachedStoppingCriterion(iteration + 1, hc,
                                       constraints_satisfied, ds)
  IN
  /\ pc = "Assign"
  /\ iteration < SolveIterBound + 2
  /\ solutions' = next_solutions
  /\ step_magnitudes' = mags
  /\ has_converged' = hc
  /\ iteration' = iteration + 1
  /\ stall_answer' = ds
  /\ stall_consulted' = StallConsulted(constraints_satisfied)
  /\ stop' = done
  /\ pc' = IF done THEN "Stopped" ELSE "ParallelStep"
  /\ task' = IF done THEN task ELSE [b \in Blocks |-> "waiting"]
  /\ UNCHANGED <<cfgVars, constraints_satisfied, n_threads_, constraints_,
                 buffer_, next_solutions, steps_done, constraints_done>>
  /\ UNCHANGED <<driverVars, partitionVars, stepVars>>

\* the initial solutions of the solve: the neutral value in every block
NeutralSolutions == [b \in Blocks |-> 1]

SolveInit ==
  /\ min_iterations_ \in 0..SolveIterBound
  /\ max_iterations_ \in 0..SolveIterBound
  /\ detect_stalling_ \in BOOLEAN
  /\ n_threads_ \in {1, MaxThreads}
  /\ constraints_ \in {<<>>, <<"smooth">>}
  /\ buffer_ \in [Blocks -> Values]
  /\ solutions = NeutralSolutions
  /\ next_solutions = NeutralSolutions
  /\ task = [b \in Blocks |-> "waiting"]
  /\ step_magnitudes = <<>>
  /\ steps_done = [b \in Blocks |-> 0]
  /\ constraints_done = 0
  /\ pc = "ParallelStep"
  /\ iteration = 0
  /\ has_converged = FALSE
  /\ constraints_satisfied = FALSE
  /\ stall_answer = FALSE
  /\ stall_consulted = FALSE
  /\ stop = FALSE

SolveNext ==
  \/ \E b \in Blocks : TaskStart(b)
  \/ \E b \in Blocks : TaskFinish(b)
  \/ BeginConstraints
  \/ ApplyConstraints
  \/ FinishIteration

\* the solver's own variables while only the stopping criterion is exercised
SolveIdle ==
  /\ n_threads_ = 1
  /\ constraints_ = <<>>
  /\ buffer_ = <<>>
  /\ solutions = <<>>
  /\ next_solutions = <<>>
  /\ task = <<>>
  /\ step_magnitudes = <<>>
  /\ steps_done = <<>>
  /\ constraints_done = 0

(***************************************************************************)
(* The same solve run by one thread, block after block                     *)
(***************************************************************************)
RECURSIVE RefBlocks(_, _, _)
RefBlocks(b, sol, next) ==
  IF b >= NBlocks THEN next
  ELSE RefBlocks(b + 1, sol, StoreUpdate(b, sol, next))

RECURSIVE RefLoop(_, _, _, _)
RefLoop(sol, next, it, mags) ==
  LET cand == RefBlocks(0, sol, next)
      cs == ChainSatisfied(constraints_, cand)
      con == ApplyChain(constraints_, cand)
      mags2 == Append(mags, StepMagnitude(sol, con))
      hc == StepMagnitude(sol, con) = 0
      ds == DetectStall(it + 1, mags2)
  IN IF ReachedStoppingCriterion(it + 1, hc, cs, ds) \/ it >= SolveIterBound + 2
     THEN [solutions |-> con, iterations |-> it + 1]
     ELSE RefLoop(con, con, it + 1, mags2)

RefSolve == RefLoop(NeutralSolutions, NeutralSolutions, 0, <<>>)

(***************************************************************************)
(* Properties of the parallel solve                                        *)
(***************************************************************************)

\* C5: the constraint chain is a barrier between the block tasks: while the
\* chain of iteration k runs every block has finished its step update of
\* iteration k, and a block task runs its step update of iteration k+1 only
\* after the chain has finished k times.
C5_ConstraintBarrier ==
  /\ pc = "Constraints" =>
       \A b \in Blocks : task[b] = "done" /\ steps_done[b] = constraints_done + 1
  /\ \A b \in Blocks :
       task[b] = "running" =>
         (pc = "ParallelStep" /\ steps_done[b] = constraints_done)
  /\ \A b \in Blocks :
       steps_done[b] \in {constraints_done, constraints_done + 1}

\* C5 witness: in the second iteration, with a non-empty chain and several
\* threads, one block task runs while another has already finished.
C5_Witness ==
  /\ constraints_ # <<>>
  /\ n_threads_ > 1
  /\ constraints_done = 1
  /\ \E b1 \in Blocks, b2 \in Blocks : task[b1] = "running" /\ task[b2] = "done"

\* C6: the final solutions and the iteration count of a solve are those of
\* the single-threaded solve that takes the blocks in order, for every
\* thread count and every interleaving of the block tasks.
C6_Deterministic ==
  pc = "Stopped" =>
    (solutions = RefSolve.solutions /\ iteration = RefSolve.iterations)

\* C6 witness: a solve on several threads that took two iterations and
\* ended with solutions that differ between the blocks.
C6_Witness ==
  /\ pc = "Stopped"
  /\ n_threads_ > 1
  /\ iteration >= 2
  /\ solutions # NeutralSolutions
  /\ \E b1 \in Blocks, b2 \in Blocks : solutions[b1] # solutions[b2]

\* no task that runs writes what another task that runs reads or writes
NoRace ==
  \A b1 \in Running, b2 \in Running :
    b1 # b2 => TaskWrites(b1) \cap (TaskReads(b2) \cup TaskWrites(b2)) = {}

\* during the parallel step only the candidate slice of a task that finishes
\* changes; the solutions and the buffered data and model do not change
OnlyOwnSliceWritten ==
  (pc = "ParallelStep" /\ pc' = "ParallelStep") =>
    /\ \A c \in Blocks :
         next_solutions'[c] # next_solutions[c] =>
           (task[c] = "running" /\ task'[c] = "done")
    /\ buffer_' = buffer_
    /\ solutions' = solutions

\* C7: during the parallel step update the task of block b writes only the
\* slice of block b and no task writes the buffered data/model views: no
\* solution entry and no visibility sample is written by one task while
\* another task reads or writes it.
C7_DisjointSlices == []NoRace /\ [][OnlyOwnSliceWritten]_vars

\* C7 witness: two block tasks run at the same time.
C7_Witness ==
  /\ pc = "ParallelStep"
  /\ Cardinality(Running) >= 2
  /\ iteration >= 1

(***************************************************************************)
(* BdaDdeCal: the solution-interval driver                                 *)
(***************************************************************************)
\* info().antennaUsed().size()
NAntennas == 2
\* settings_.directions.size()
NDirections == 1
\* largest number of solution intervals of the observation
MaxIntervals == 2

\* variant: one entry per antenna and direction, whatever the solver
BlockSolutionSizeOnePol == NDirections * NAntennas

\* SolveCurrentInterval, BdaDdeCal.cc:289-290
BlockSolutionSize == NDirections * NAntennas * n_pol

\* The points at which the iteration loop of the solver can stop: iteration
\* count it with the step and the constraints converged (conv) or not, the
\* loop condition being ReachedStoppingCriterion.
CanStop(it, conv) ==
  \E hc \in BOOLEAN, cs \in BOOLEAN, ds \in BOOLEAN :
    (hc /\ cs) = conv /\ ReachedStoppingCriterion(it, hc, cs, ds)

CanContinue(it) ==
  \E hc \in BOOLEAN, cs \in BOOLEAN, ds \in BOOLEAN :
    ~ReachedStoppingCriterion(it, hc, cs, ds)

StopPoints ==
  {p \in (1..(SolveIterBound + 2)) \X BOOLEAN :
     CanStop(p[1], p[2]) /\ \A j \in 1..(p[1] - 1) : CanContinue(j)}

\* SolveResult::iterations as the driver reads it (BdaDdeCal.cc:312-316): an
\* unconverged solve reports one iteration more than it made.
ResultIterations(it, conv) == IF conv THEN it ELSE it + 1

\* The solutions a solve of kind d leaves in its in/out argument: kind 0
\* leaves the initial guess as it is, kind 1 moves every entry by an amount
\* that depends on its block and its position.
SolverOutput(guess, d) ==
  [b \in Blocks |->
     [i \in 1..Len(guess[b]) |-> (guess[b][i] + d * (b + i)) % (MaxVal + 1)]]

\* variant: the iteration count of the previous interval is looked at
\* whether or not propagate_converged_only is set
InitializeCurrentSolutionsAlwaysConvergedOnly(sols, its) ==
  LET n == Len(sols)
      current_solution == sols[n]
      propagate == /\ n > 1
                   /\ propagate_solutions
                   /\ ~(its[n - 1] > max_iterations_)
  IN IF propagate
     THEN [block \in DOMAIN current_solution |->
             [i \in DOMAIN current_solution[block] |-> sols[n - 1][block][i]]]
     ELSE IF n_pol = 4
     THEN [block \in DOMAIN current_solution |->
             [i \in DOMAIN current_solution[block] |->
                IF (i - 1) % 4 \in {0, 3} THEN 1 ELSE 0]]
     ELSE [block \in DOMAIN current_solution |->
             [i \in DOMAIN current_solution[block] |-> 1]]

\* variant: >= max_iterations in place of > max_iterations
InitializeCurrentSolutionsGeMax(sols, its) ==
  LET n == Len(sols)
      current_solution == sols[n]
      propagate == /\ n > 1
                   /\ propagate_solutions
                   /\ ~(propagate_converged_only /\ its[n - 1] >= max_iterations_)
  IN IF propagate
     THEN [block \in DOMAIN current_solution |->
             [i \in DOMAIN current_solution[block] |-> sols[n - 1][block][i]]]
     ELSE IF n_pol = 4
     THEN [block \in DOMAIN current_solution |->
             [i \in DOMAIN current_solution[block] |->
                IF (i - 1) % 4 \in {0, 3} THEN 1 ELSE 0]]
     ELSE [block \in DOMAIN current_solution |->
             [i \in DOMAIN current_solution[block] |-> 1]]

\* variant: without propagation the solutions stay as assigned, 1.0
InitializeCurrentSolutionsNoUnity(sols, its) ==
  LET n == Len(sols)
      current_solution == sols[n]
      propagate == /\ n > 1
                   /\ propagate_solutions
                   /\ ~(propagate_converged_only /\ its[n - 1] > max_iterations_)
  IN IF propagate
     THEN [block \in DOMAIN current_solution |->
             [i \in DOMAIN current_solution[block] |-> sols[n - 1][block][i]]]
     ELSE current_solution

\* BdaDdeCal::InitializeCurrentSolutions, BdaDdeCal.cc:360-399.  sols is
\* solutions_ with the new interval at its back, its is iterations_; the
\* result is the new interval's solution set after the call.
InitializeCurrentSolutions(sols, its) ==
  LET n == Len(sols)
      \* line 361-362
      current_solution == sols[n]
      \* lines 364-368; iterations_[solutions_.size() - 2] is its[n - 1]
      propagate == /\ n > 1
                   /\ propagate_solutions
                   /\ ~(propagate_converged_only /\ its[n - 1] > max_iterations_)
  IN IF propagate
     \* lines 370-382: copy of *(solutions_.end() - 2), block by block
     THEN [block \in DOMAIN current_solution |->
             [i \in DOMAIN current_solution[block] |-> sols[n - 1][block][i]]]
     \* lines 383-392: unity matrix in every group of four entries
     ELSE IF n_pol = 4
     THEN [block \in DOMAIN current_solution |->
             [i \in DOMAIN current_solution[block] |->
                IF (i - 1) % 4 \in {0, 3} THEN 1 ELSE 0]]
     \* lines 393-398
     ELSE [block \in DOMAIN current_solution |->
             [i \in DOMAIN current_solution[block] |-> 1]]

\* SolveResult::results of a solve of kind d: per constraint the weights of
\* each of its results.  Kind 0 is a solve whose constraints produce no
\* result, kind 1 one whose second constraint produces a result with a
\* negative (diverged), a zero and a positive weight.
SolverResults(d) ==
  IF d = 0 THEN << <<>> >> ELSE << <<>>, << <<-1, 0, 2>> >> >>

\* SolveResult::constraint_iterations of a solve of kind d
ConstraintIterations(it, d) == IF d = 0 THEN 0 ELSE it

\* variant: an unconverged solve has every weight set to zero, whatever
\* flag_diverged_only says
FixUpWeightAllZero(weight, its) ==
  IF flag_unconverged /\ its > max_iterations_
  THEN 0
  ELSE IF weight < 0 THEN 1 ELSE weight

\* variant: an unconverged solve has only its negative weights set to zero,
\* whatever flag_diverged_only says
FixUpWeightClampOnly(weight, its) ==
  IF flag_unconverged /\ its > max_iterations_
  THEN Max2(weight, 0)
  ELSE IF weight < 0 THEN 1 ELSE weight

\* variant: a solve that reports max_iterations iterations is flagged too
FixUpWeightFromMax(weight, its) ==
  IF flag_unconverged /\ its >= max_iterations_
  THEN IF flag_diverged_only THEN Max2(weight, 0) ELSE 0
  ELSE IF weight < 0 THEN 1 ELSE weight

\* variant: without flagging the weights are stored as the solver gave them
FixUpWeightKeepNegative(weight, its) ==
  IF flag_unconverged /\ its > max_iterations_
  THEN IF flag_diverged_only THEN Max2(weight, 0) ELSE 0
  ELSE weight

\* The fix-up of one weight, BdaDdeCal.cc:315-346; its is result.iterations.
FixUpWeight(weight, its) ==
  IF flag_unconverged /\ its > max_iterations_
  THEN IF flag_diverged_only
       \* lines 317-326: weight = std::max(weight, 0.0)
       THEN Max2(weight, 0)
       \* lines 327-335: std::fill(..., 0.0)
       ELSE 0
  \* lines 336-346: if (weight < 0.0) weight = 1.0
  ELSE IF weight < 0 THEN 1 ELSE weight

\* lines 312-346 over every weight of every result of every constraint
FixUpResults(results, its) ==
  [c \in DOMAIN results |->
     [r \in DOMAIN results[c] |->
        [w \in DOMAIN results[c][r] |-> FixUpWeight(results[c][r][w], its)]]]

\* lines 348-356: what is appended to constraint_solutions_
StoredConstraintSolution(results) ==
  IF \E c \in DOMAIN results : results[c] # <<>> THEN results ELSE <<>>

\* variant: the solver writes into the interval before the current one
SolveInPlaceOfPrevious(sols, d) ==
  LET n == Len(sols)
  IN IF n > 1
     THEN [sols EXCEPT ![n - 1] = SolverOutput(sols[n], d)]
     ELSE [sols EXCEPT ![n] = SolverOutput(sols[n], d)]

\* lines 297-298: Solve is handed solutions_.back(), which holds the initial
\* guess, and leaves its output there; sols is solutions_ at the call.
SolveInPlace(sols, d) ==
  [sols EXCEPT ![Len(sols)] = SolverOutput(sols[Len(sols)], d)]

\* variant: nothing is stored for an interval without constraint results
PushConstraintSolutionIfAny(stored, results) ==
  IF \E c \in DOMAIN results : results[c] # <<>>
  THEN Append(stored, results)
  ELSE stored

\* lines 348-356: constraint_solutions_ after the push_back / emplace_back
PushConstraintSolution(stored, results) ==
  Append(stored, StoredConstraintSolution(results))

\* BdaDdeCal::SolveCurrentInterval, BdaDdeCal.cc:275-358, for a solve of
\* kind d that stops at iteration it, converged or not.
SolveCurrentInterval(it, conv, d) ==
  LET \* lines 288-293: a new interval, every block assigned 1.0
      fresh == [block \in Blocks |-> [i \in 1..BlockSolutionSize |-> 1]]
      \* line 295
      guess == InitializeCurrentSolutions(Append(solutions_, fresh), iterations_)
      \* lines 297-298: the result of Solve
      result == [iterations |-> ResultIterations(it, conv),
                 constraint_iterations |-> ConstraintIterations(it, d),
                 results |-> SolverResults(d)]
  IN /\ pc = "Driver"
     /\ Len(solutions_) < MaxIntervals
     /\ <<it, conv>> \in StopPoints
     /\ initial_guess' = Append(initial_guess, guess)
     /\ solve_results' =
          Append(solve_results,
                 [iteration |-> it, converged |-> conv, result |-> result])
     \* lines 297-298: Solve works on solutions_.back()
     /\ solutions_' = SolveInPlace(Append(solutions_, guess), d)
     \* lines 302-303
     /\ iterations_' = Append(iterations_, result.iterations)
     /\ approx_iterations_' =
          Append(approx_iterations_, result.constraint_iterations)
     \* lines 305-310
     /\ subtracted' = IF subtract
                      THEN subtracted \cup {Len(solutions_) + 1}
                      ELSE subtracted
     \* lines 312-356
     /\ constraint_solutions_' =
          PushConstraintSolution(
            constraint_solutions_,
            FixUpResults(result.results, result.iterations))
     /\ UNCHANGED <<cfgVars, engineVars, solveVars, settingsVars,
                     partitionVars, stepVars>>

DriverInit ==
  /\ propagate_solutions \in BOOLEAN
  /\ propagate_converged_only \in BOOLEAN
  /\ flag_unconverged \in BOOLEAN
  /\ flag_diverged_only \in BOOLEAN
  /\ subtract \in BOOLEAN
  /\ n_pol \in {1, 2, 4}
  /\ solutions_ = <<>>
  /\ iterations_ = <<>>
  /\ approx_iterations_ = <<>>
  /\ constraint_solutions_ = <<>>
  /\ subtracted = {}
  /\ initial_guess = <<>>
  /\ solve_results = <<>>
  /\ min_iterations_ = 0
  /\ max_iterations_ \in 1..SolveIterBound
  /\ detect_stalling_ = TRUE
  /\ pc = "Driver"
  /\ iteration = 0
  /\ has_converged = FALSE
  /\ constraints_satisfied = FALSE
  /\ stall_answer = FALSE
  /\ stall_consulted = FALSE
  /\ stop = FALSE

DriverNext ==
  \E it \in 1..(SolveIterBound + 2), conv \in BOOLEAN, d \in 0..1 :
    SolveCurrentInterval(it, conv, d)

(***************************************************************************)
(* Properties of the initial solutions of an interval                      *)
(***************************************************************************)
\* the solved intervals after the first
LaterIntervals == 2..Len(solutions_)

\* the driver's test of an unconverged solve: the solver reported more than
\* max_iterations iterations
ReportedUnconverged(k) == iterations_[k] > max_iterations_

\* the neutral value: identity matrices for four polarizations, 1.0 otherwise
IsNeutral(sol) ==
  /\ DOMAIN sol = Blocks
  /\ \A b \in Blocks :
       /\ Len(sol[b]) = NDirections * NAntennas * n_pol
       /\ IF n_pol = 4
          THEN \A g \in 0..(NDirections * NAntennas - 1) :
                 /\ sol[b][4 * g + 1] = 1
                 /\ sol[b][4 * g + 2] = 0
                 /\ sol[b][4 * g + 3] = 0
                 /\ sol[b][4 * g + 4] = 1
          ELSE \A i \in 1..Len(sol[b]) : sol[b][i] = 1

\* C8: with propagate_solutions on and converged-only propagation off, the
\* initial guess of every interval after the first equals, block by block and
\* entry by entry, the final solution stored for the interval before it.
C8_PropagatesPrevious ==
  (propagate_solutions /\ ~propagate_converged_only) =>
    \A k \in LaterIntervals :
      /\ DOMAIN initial_guess[k] = Blocks
      /\ \A b \in Blocks :
           /\ Len(initial_guess[k][b]) = Len(solutions_[k - 1][b])
           /\ \A i \in 1..Len(initial_guess[k][b]) :
                initial_guess[k][b][i] = solutions_[k - 1][b][i]

\* C8 witness: a second full-Jones interval that started from the final,
\* non-neutral solution of a first interval reported as unconverged.
C8_Witness ==
  /\ propagate_solutions
  /\ ~propagate_converged_only
  /\ n_pol = 4
  /\ Len(solutions_) >= 2
  /\ ReportedUnconverged(1)
  /\ ~IsNeutral(solutions_[1])
  /\ initial_guess[2] = solutions_[1]

\* C9: with propagate_solutions and propagate_converged_only both on, an
\* interval after the first starts from the neutral value when the solve of
\* the interval before it did not converge within max_iterations (it
\* reported more than max_iterations iterations), and from the final
\* solution of that interval otherwise.
C9_ConvergedOnlyPropagation ==
  (propagate_solutions /\ propagate_converged_only) =>
    \A k \in LaterIntervals :
      IF ReportedUnconverged(k - 1)
      THEN IsNeutral(initial_guess[k])
      ELSE initial_guess[k] = solutions_[k - 1]

\* C9 witness: a first interval that reported exactly max_iterations
\* iterations and a non-neutral result, from which the second interval
\* starts.
C9_Witness ==
  /\ propagate_solutions
  /\ propagate_converged_only
  /\ Len(solutions_) >= 2
  /\ iterations_[1] = max_iterations_
  /\ ~IsNeutral(solutions_[1])
  /\ initial_guess[2] = solutions_[1]
  /\ ~IsNeutral(initial_guess[2])

\* C10: whenever propagation does not apply (first interval, propagation
\* off, or skipped by converged-only propagation) the initial guess is the
\* neutral value: (1,0,0,1) in every group of four entries of a
\* four-polarization solver, 1.0 in every entry otherwise.
C10_NeutralInitialValue ==
  \A k \in 1..Len(solutions_) :
    (\/ k = 1
     \/ ~propagate_solutions
     \/ (propagate_converged_only /\ ReportedUnconverged(k - 1)))
    => IsNeutral(initial_guess[k])

\* C10 witness: a full-Jones solver whose second interval starts from the
\* identity because converged-only propagation skipped a non-neutral,
\* unconverged first interval.
C10_Witness ==
  /\ n_pol = 4
  /\ propagate_solutions
  /\ propagate_converged_only
  /\ Len(solutions_) >= 2
  /\ ReportedUnconverged(1)
  /\ ~IsNeutral(solutions_[1])
  /\ IsNeutral(initial_guess[2])

(***************************************************************************)
(* Properties of the weight fix-up                                         *)
(***************************************************************************)
\* the solved intervals
Intervals == 1..Len(constraint_solutions_)

\* the constraint results as Solve returned them for interval k
ReturnedResults(k) == solve_results[k].result.results

\* some constraint of the results has a result
HasResult(results) == \E c \in DOMAIN results : results[c] # <<>>

\* a and b have the same constraints, results and numbers of weights
SameShape(a, b) ==
  /\ DOMAIN a = DOMAIN b
  /\ \A c \in DOMAIN a :
       /\ DOMAIN a[c] = DOMAIN b[c]
       /\ \A r \in DOMAIN a[c] : DOMAIN a[c][r] = DOMAIN b[c][r]

\* the weights stored for an interval
StoredWeights(k) ==
  UNION {UNION {{constraint_solutions_[k][c][r][w] :
                   w \in DOMAIN constraint_solutions_[k][c][r]} :
                  r \in DOMAIN constraint_solutions_[k][c]} :
           c \in DOMAIN constraint_solutions_[k]}

\* C11: when the solve exceeded max_iterations and flag_unconverged and
\* flag_diverged_only are both on, the stored weights are the returned ones
\* with exactly the negative weights set to zero; every non-negative weight
\* is unchanged.
C11_DivergedOnlyZeroesNegative ==
  \A k \in Intervals :
    (/\ flag_unconverged
     /\ flag_diverged_only
     /\ ReportedUnconverged(k)
     /\ HasResult(ReturnedResults(k)))
    => /\ SameShape(constraint_solutions_[k], ReturnedResults(k))
       /\ \A c \in DOMAIN ReturnedResults(k) :
            \A r \in DOMAIN ReturnedResults(k)[c] :
              \A w \in DOMAIN ReturnedResults(k)[c][r] :
                constraint_solutions_[k][c][r][w] =
                  IF ReturnedResults(k)[c][r][w] < 0
                  THEN 0
                  ELSE ReturnedResults(k)[c][r][w]

\* C11 witness: an unconverged interval under both flags whose negative
\* weight became zero while its positive weight stayed.
C11_Witness ==
  /\ flag_unconverged
  /\ flag_diverged_only
  /\ Len(constraint_solutions_) >= 1
  /\ ReportedUnconverged(1)
  /\ HasResult(ReturnedResults(1))
  /\ ReturnedResults(1)[2][1] = <<-1, 0, 2>>
  /\ constraint_solutions_[1][2][1] = <<0, 0, 2>>

\* C12: when the solve exceeded max_iterations and flag_unconverged is on
\* with flag_diverged_only off, every weight of every constraint result of
\* the interval is zero, whatever the solver returned.
C12_UnconvergedAllZero ==
  \A k \in Intervals :
    (flag_unconverged /\ ~flag_diverged_only /\ ReportedUnconverged(k))
    => /\ StoredWeights(k) \subseteq {0}
       /\ HasResult(ReturnedResults(k)) =>
            SameShape(constraint_solutions_[k], ReturnedResults(k))

\* C12 witness: an unconverged interval whose positive weight was zeroed
C12_Witness ==
  /\ flag_unconverged
  /\ ~flag_diverged_only
  /\ Len(constraint_solutions_) >= 1
  /\ ReportedUnconverged(1)
  /\ HasResult(ReturnedResults(1))
  /\ ReturnedResults(1)[2][1][3] > 0
  /\ constraint_solutions_[1][2][1] = <<0, 0, 0>>

\* C13: when flag_unconverged is off or the solve did not exceed
\* max_iterations, the stored weights are the returned ones with every
\* negative weight reset to 1; and in every interval, whatever the branch,
\* no stored weight is negative.
C13_NoNegativeWeightStored ==
  \A k \in Intervals :
    /\ \A weight \in StoredWeights(k) : weight >= 0
    /\ ((~flag_unconverged \/ ~ReportedUnconverged(k))
          /\ HasResult(ReturnedResults(k)))
       => /\ SameShape(constraint_solutions_[k], ReturnedResults(k))
          /\ \A c \in DOMAIN ReturnedResults(k) :
               \A r \in DOMAIN ReturnedResults(k)[c] :
                 \A w \in DOMAIN ReturnedResults(k)[c][r] :
                   constraint_solutions_[k][c][r][w] =
                     IF ReturnedResults(k)[c][r][w] < 0
                     THEN 1
                     ELSE ReturnedResults(k)[c][r][w]

\* C13 witness: flagging is on, the first solve stayed within
\* max_iterations, and its negative weight was stored as 1.
C13_Witness ==
  /\ flag_unconverged
  /\ Len(constraint_solutions_) >= 1
  /\ ~ReportedUnconverged(1)
  /\ HasResult(ReturnedResults(1))
  /\ ReturnedResults(1)[2][1] = <<-1, 0, 2>>
  /\ constraint_solutions_[1][2][1] = <<1, 0, 2>>

(***************************************************************************)
(* Properties of the shape of the solutions                                *)
(***************************************************************************)
\* sol has one block per channel block and in every block one entry per
\* antenna, direction and solution polarization
HasSolutionShape(sol) ==
  /\ DOMAIN sol = Blocks
  /\ Cardinality(DOMAIN sol) = NBlocks
  /\ \A block \in DOMAIN sol :
       /\ DOMAIN sol[block] = 1..Len(sol[block])
       /\ Len(sol[block]) = NAntennas * NDirections * n_pol

\* C19: the solution set of every interval has n_channel_blocks blocks of
\* nAntennas * nDirections * NSolutionPolarizations entries each, with 1, 2
\* or 4 polarizations, both as it is handed to the solver and as it is
\* stored and read as the previous interval by the next one.
C19_SolutionShape ==
  /\ n_pol \in {1, 2, 4}
  /\ \A k \in 1..Len(solutions_) :
       /\ HasSolutionShape(initial_guess[k])
       /\ HasSolutionShape(solutions_[k])

\* C19 witness: a diagonal solver's second interval, which starts from the
\* four entries per block of the first
C19_Witness ==
  /\ n_pol = 2
  /\ propagate_solutions
  /\ Len(solutions_) >= 2
  /\ \A block \in Blocks : Len(solutions_[1][block]) = 4
  /\ ~IsNeutral(solutions_[1])
  /\ initial_guess[2] = solutions_[1]

RanOutOfIterations(k) ==
  /\ ~solve_results[k].converged
  /\ solve_results[k].iteration = max_iterations_

C23_StoredSolutionNeverModified ==
  [][\A k \in 1..Len(solutions_) :
       /\ k \in 1..Len(solutions_')
       /\ solutions_'[k] = solutions_[k]]_vars

\* C23 witness: a second interval that started from the non-neutral solution
\* of the first and was solved to something else, with the first interval's
\* solution still the one it was read from.
C23_Witness ==
  /\ Len(solutions_) >= 2
  /\ propagate_solutions
  /\ ~IsNeutral(solutions_[1])
  /\ initial_guess[2] = solutions_[1]
  /\ solutions_[2] # solutions_[1]
  /\ solutions_[1] = SolverOutput(initial_guess[1], 1)

\* C28: after every return of SolveCurrentInterval solutions_, iterations_,
\* approx_iterations_ and constraint_solutions_ have the same length, so the
\* entry of iterations_ that InitializeCurrentSolutions reads for the next
\* interval (the last one, once solutions_ has grown by one) exists whenever
\* an interval has been solved before.
C28_ParallelSequences ==
  /\ Len(iterations_) = Len(solutions_)
  /\ Len(approx_iterations_) = Len(solutions_)
  /\ Len(constraint_solutions_) = Len(solutions_)
  /\ Len(solutions_) >= 1 => Len(solutions_) \in DOMAIN iterations_

\* C28 witness: two solved intervals, the first with a constraint result,
\* the second without any, and the second one started from the first.
C28_Witness ==
  /\ Len(solutions_) = 2
  /\ constraint_solutions_[1] # <<>>
  /\ constraint_solutions_[2] = <<>>
  /\ propagate_solutions
  /\ propagate_converged_only
  /\ initial_guess[2] = solutions_[1]
  /\ ~IsNeutral(solutions_[1])

\* the weights of interval k were flagged: a weight the solver returned as
\* negative is stored as zero (an interval that is not flagged has it
\* stored as 1.0)
Flagged(k) ==
  \E c \in DOMAIN ReturnedResults(k) :
    \E r \in DOMAIN ReturnedResults(k)[c] :
      \E w \in DOMAIN ReturnedResults(k)[c][r] :
        /\ ReturnedResults(k)[c][r][w] < 0
        /\ constraint_solutions_[k][c][r][w] = 0

\* the solution of interval k was not propagated into interval k + 1
PropagationSkipped(k) == initial_guess[k + 1] # solutions_[k]

\* C29: the driver takes an interval for unconverged exactly when the solver
\* reported more than max_iterations iterations for it, and it does so both
\* when it flags the weights of the interval and when converged-only
\* propagation decides whether the next interval starts from it; an interval
\* that reported exactly max_iterations counts as converged in both places.
C29_SameUnconvergedTest ==
  \A k \in Intervals :
    /\ (flag_unconverged /\ HasResult(ReturnedResults(k)))
       => /\ Flagged(k) <=> iterations_[k] > max_iterations_
          /\ iterations_[k] = max_iterations_ => ~Flagged(k)
    /\ (/\ k + 1 \in Intervals
        /\ propagate_solutions
        /\ propagate_converged_only
        /\ ~IsNeutral(solutions_[k]))
       => /\ PropagationSkipped(k) <=> iterations_[k] > max_iterations_
          /\ iterations_[k] = max_iterations_ => ~PropagationSkipped(k)

\* C29 witness: a first interval that reported exactly max_iterations, is
\* not flagged and is propagated into the second, which reported more than
\* max_iterations and is flagged.
C29_Witness ==
  /\ flag_unconverged
  /\ propagate_solutions
  /\ propagate_converged_only
  /\ Len(constraint_solutions_) = 2
  /\ HasResult(ReturnedResults(1))
  /\ HasResult(ReturnedResults(2))
  /\ iterations_[1] = max_iterations_
  /\ ~Flagged(1)
  /\ ~IsNeutral(solutions_[1])
  /\ ~PropagationSkipped(1)
  /\ iterations_[2] > max_iterations_
  /\ Flagged(2)

\* the driver's variables while only the solver is exercised
DriverIdle ==
  /\ propagate_solutions = FALSE
  /\ propagate_converged_only = FALSE
  /\ flag_unconverged = FALSE
  /\ flag_diverged_only = FALSE
  /\ subtract = FALSE
  /\ n_pol = 1
  /\ solutions_ = <<>>
  /\ iterations_ = <<>>
  /\ approx_iterations_ = <<>>
  /\ constraint_solutions_ = <<>>
  /\ subtracted = {}
  /\ initial_guess = <<>>
  /\ solve_results = <<>>

(***************************************************************************)
(* BdaDdeCal::DetermineChannelBlocks, BdaDdeCal.cc:146-178                 *)
(*                                                                         *)
(* Frequencies and widths are C++ doubles.  They are modelled as binary    *)
(* floating point numbers with SignificandBits bits of significand, written*)
(* as integers in units of the smallest step that occurs; as for a double, *)
(* the result of every operation is rounded to the nearest representable   *)
(* value, ties to the even significand.                                    *)
(***************************************************************************)
\* largest info().nchan()
MaxChan == 5
\* bits of significand of the floating point format
SignificandBits == 5

RECURSIVE Pow2(_)
Pow2(n) == IF n = 0 THEN 1 ELSE 2 * Pow2(n - 1)

\* the distance between neighbouring representable values at magnitude x
RECURSIVE UlpFrom(_, _)
UlpFrom(x, q) ==
  IF x < q * Pow2(SignificandBits) THEN q ELSE UlpFrom(x, 2 * q)

Ulp(x) == UlpFrom(x, 1)

\* the representable value nearest to num / den (num >= 0, den > 0)
RoundToDouble(num, den) ==
  LET q == Ulp(num \div den)
      lo == num \div (den * q)
      rem == num - lo * den * q
      up == \/ 2 * rem > den * q
            \/ (2 * rem = den * q /\ lo % 2 = 1)
  IN (IF up THEN lo + 1 ELSE lo) * q

\* a + b, a - b, a * b and a / b in double
DoubleAdd(a, b) == RoundToDouble(a + b, 1)
DoubleSub(a, b) == RoundToDouble(a - b, 1)
DoubleMul(a, b) == RoundToDouble(a * b, 1)
DoubleDiv(a, b) == RoundToDouble(a, b)

\* variant: no lower limit of one block
NChannelBlocksNoMax(nchan, target) ==
  IF target > 0 THEN nchan \div target ELSE 1

\* lines 149-153
NChannelBlocks(nchan, target) ==
  IF target > 0 THEN Max2(nchan \div target, 1) ELSE 1

\* variant: every block gets nchan / n_channel_blocks channels
NextIndexEqualSize(ch_block, nchan, n_channel_blocks) ==
  (ch_block + 1) * (nchan \div n_channel_blocks)

\* lines 170-171
NextIndex(ch_block, nchan, n_channel_blocks) ==
  ((ch_block + 1) * nchan) \div n_channel_blocks

\* The loop of lines 169-177 from block ch_block on.  freqs is
\* chan_block_start_freqs_ so far, ranges the <<start_index, next_index>> of
\* the blocks so far; c holds what the loop does not change: nchan,
\* n_channel_blocks and chan_width.
RECURSIVE BlockLoop(_, _, _, _, _, _)
BlockLoop(ch_block, start_index, start_freq, freqs, ranges, c) ==
  IF ch_block < c.n_channel_blocks
  THEN LET next_index == NextIndex(ch_block, c.nchan, c.n_channel_blocks)
           block_size == next_index - start_index
           next_freq ==
             DoubleAdd(start_freq, DoubleMul(block_size, c.chan_width))
       IN BlockLoop(ch_block + 1, next_index, next_freq,
                    Append(freqs, next_freq),
                    Append(ranges, <<start_index, next_index>>), c)
  ELSE [chan_block_start_freqs_ |-> freqs, ranges |-> ranges]

\* DetermineChannelBlocks for the info inf and settings_.n_channels = target:
\* the new chan_block_start_freqs_ and the values of the locals.
DetermineChannelBlocks(inf, target) ==
  LET n_channel_blocks == NChannelBlocks(inf.nchan, target)
      \* lines 157-160
      min_freq == DoubleSub(inf.chanFreqs[1], DoubleDiv(inf.chanWidths[1], 2))
      max_freq == DoubleAdd(inf.chanFreqs[Len(inf.chanFreqs)],
                            DoubleDiv(inf.chanWidths[Len(inf.chanWidths)], 2))
      \* line 161
      chan_width == DoubleDiv(DoubleSub(max_freq, min_freq), inf.nchan)
      \* lines 163-177: cleared, then min_freq and one entry per block
      loop == BlockLoop(0, 0, min_freq, <<min_freq>>, <<>>,
                        [nchan |-> inf.nchan,
                         n_channel_blocks |-> n_channel_blocks,
                         chan_width |-> chan_width])
  IN [n_channel_blocks |-> n_channel_blocks,
      min_freq |-> min_freq,
      max_freq |-> max_freq,
      chan_width |-> chan_width,
      chan_block_start_freqs_ |-> loop.chan_block_start_freqs_,
      ranges |-> loop.ranges]

\* The widths a channel can have and the lower edge of the first channel
ChanWidthChoices == {16, 20, 32}
FirstEdge == 24

\* sum of the first n elements of a sequence
RECURSIVE SumFirst(_, _)
SumFirst(seq, n) == IF n = 0 THEN 0 ELSE seq[n] + SumFirst(seq, n - 1)

\* The info of an observation whose contiguous channels have the given
\* widths: channel i is centred between its edges.
InfoOf(widths) ==
  [nchan |-> Len(widths),
   chanFreqs |-> [i \in 1..Len(widths) |->
                    RoundToDouble(
                      2 * (FirstEdge + SumFirst(widths, i - 1)) + widths[i],
                      2)],
   chanWidths |-> widths]

Infos ==
  {InfoOf(widths) :
     widths \in UNION {[1..n -> ChanWidthChoices] : n \in 1..MaxChan}}

\* before updateInfo
NoInfo == [nchan |-> 0, chanFreqs |-> <<>>, chanWidths |-> <<>>]
NoChannelBlocks ==
  [n_channel_blocks |-> 0, min_freq |-> 0, max_freq |-> 0, chan_width |-> 0,
   chan_block_start_freqs_ |-> <<>>, ranges |-> <<>>]

\* BdaDdeCal::updateInfo, BdaDdeCal.cc:85-144, as far as the channel blocks
\* go: the info is stored (line 86) and DetermineChannelBlocks is called
\* (line 106).  The step gets its info once, when the steps are set up.
updateInfo(_info) ==
  LET determined == DetermineChannelBlocks(_info, n_channels)
  IN /\ pc = "Partition"
     /\ pc' = "Partitioned"
     /\ info' = _info
     /\ channel_blocks' = determined
     /\ chan_block_start_freqs_' = determined.chan_block_start_freqs_
     /\ UNCHANGED <<n_channels, cfgVars, iteration, has_converged,
                     constraints_satisfied, stall_answer, stall_consulted,
                     stop, solveVars, driverVars, stepVars>>

PartitionInit ==
  /\ info = NoInfo
  /\ n_channels \in 0..(MaxChan + 1)
  /\ chan_block_start_freqs_ = <<>>
  /\ channel_blocks = NoChannelBlocks
  /\ pc = "Partition"

PartitionNext == \E _info \in Infos : updateInfo(_info)

\* the channel blocks while they are not exercised
PartitionIdle ==
  /\ info = NoInfo
  /\ n_channels = 0
  /\ chan_block_start_freqs_ = <<>>
  /\ channel_blocks = NoChannelBlocks

\* the solver's configuration and loop while they are not exercised
EngineIdle ==
  /\ min_iterations_ = 0
  /\ max_iterations_ = 0
  /\ detect_stalling_ = FALSE
  /\ iteration = 0
  /\ has_converged = FALSE
  /\ constraints_satisfied = FALSE
  /\ stall_answer = FALSE
  /\ stall_consulted = FALSE
  /\ stop = FALSE

(***************************************************************************)
(* Properties of the channel blocks                                        *)
(***************************************************************************)
\* updateInfo has run
Partitioned == info.nchan >= 1

\* the number of blocks in chan_block_start_freqs_
NBlocksStored == Len(chan_block_start_freqs_) - 1

\* C15: DetermineChannelBlocks makes max(1, nchan / n_channels) blocks, the
\* division being the integer one, and exactly one block when n_channels is 0
\* or larger than nchan; chan_block_start_freqs_ has one entry more than
\* there are blocks.
C15_NumberOfChannelBlocks ==
  Partitioned =>
    /\ channel_blocks.n_channel_blocks =
         (IF n_channels = 0 THEN 1 ELSE Max2(1, info.nchan \div n_channels))
    /\ (n_channels = 0 \/ n_channels > info.nchan) =>
         channel_blocks.n_channel_blocks = 1
    /\ Len(chan_block_start_freqs_) = channel_blocks.n_channel_blocks + 1
    /\ Len(channel_blocks.ranges) = channel_blocks.n_channel_blocks

\* C15 witness: five channels with n_channels = 2 make two blocks between
\* three boundaries.
C15_Witness ==
  /\ Partitioned
  /\ n_channels = 2
  /\ info.nchan = 5
  /\ channel_blocks.n_channel_blocks = 2
  /\ Len(chan_block_start_freqs_) = 3

\* C16: the index ranges [start_index, next_index) of the blocks partition
\* [0, nchan): the first starts at 0, each starts where the one before it
\* ended, the last ends at nchan, and every block has at least one channel.
C16_BlocksPartitionChannels ==
  Partitioned =>
    LET ranges == channel_blocks.ranges
    IN /\ Len(ranges) >= 1
       /\ ranges[1][1] = 0
       /\ \A b \in 2..Len(ranges) : ranges[b][1] = ranges[b - 1][2]
       /\ ranges[Len(ranges)][2] = info.nchan
       /\ \A b \in 1..Len(ranges) : ranges[b][2] - ranges[b][1] >= 1

\* C16 witness: five channels in two blocks, of two and of three channels
C16_Witness ==
  /\ Partitioned
  /\ info.nchan = 5
  /\ n_channels = 2
  /\ channel_blocks.ranges = << <<0, 2>>, <<2, 5>> >>

\* all channels of the info have the same width
RegularWidths ==
  \A i \in 1..info.nchan : info.chanWidths[i] = info.chanWidths[1]

\* C17: the boundary frequencies are strictly increasing, the first is
\* min_freq, the lower edge of the first channel, and the last is max_freq,
\* the upper edge of the last channel.
C17_BoundariesSpanBand ==
  Partitioned =>
    /\ \A b \in 1..NBlocksStored :
         chan_block_start_freqs_[b] < chan_block_start_freqs_[b + 1]
    /\ chan_block_start_freqs_[1] = channel_blocks.min_freq
    /\ chan_block_start_freqs_[Len(chan_block_start_freqs_)] =
         channel_blocks.max_freq

\* C18: every boundary frequency is min_freq plus the summed widths of the
\* channels of the blocks before it.
C18_BoundariesFollowChannelWidths ==
  Partitioned =>
    \A b \in 1..NBlocksStored :
      chan_block_start_freqs_[b + 1] =
        channel_blocks.min_freq
          + SumFirst(info.chanWidths, channel_blocks.ranges[b][2])

(***************************************************************************)
(* OnePredict::process, OnePredict.cc:346-658, for predict steps that run   *)
(* side by side and share one measures mutex                               *)
(***************************************************************************)
\* the predict steps that process a buffer at the same time
NPredictSteps == 2

\* getInfo().nThreads(): the threads of the pool of a step
NPoolThreads == 2

PredictSteps == 1..NPredictSteps
PoolThreads == 1..NPoolThreads

\* line 361
NeedMeasConverters == moving_phase_ref_ \/ apply_beam_

\* lines 346-367: process() up to the std::unique_lock of line 365; the
\* lock is taken (line 367) only when measures_mutex_ is not a null pointer,
\* and then the step waits until the mutex is free.  The main thread of the
\* step then enters the conversions of lines 368-374.
EnterMeasConverters(s) ==
  /\ pc = "Predict"
  /\ predict_pc[s] = "start"
  /\ NeedMeasConverters
  /\ IF measures_mutex_ # "nullptr"
     THEN /\ measures_owner = 0
          /\ measures_owner' = s
     ELSE UNCHANGED measures_owner
  /\ predict_pc' = [predict_pc EXCEPT ![s] = "meas_converters"]
  /\ converting' = [converting EXCEPT ![s] = {0}]
  /\ UNCHANGED <<moving_phase_ref_, apply_beam_, measures_mutex_, beam_done>>
  /\ UNCHANGED <<cfgVars, engineVars, solveVars, driverVars, partitionVars,
                 intervalVars, pipelineVars, lateVars>>

\* lines 361-362 with need_meas_converters false: the block is skipped
SkipMeasConverters(s) ==
  /\ pc = "Predict"
  /\ predict_pc[s] = "start"
  /\ ~NeedMeasConverters
  /\ predict_pc' = [predict_pc EXCEPT ![s] = "predict"]
  /\ UNCHANGED <<moving_phase_ref_, apply_beam_, measures_mutex_,
                 measures_owner, converting, beam_done>>
  /\ UNCHANGED <<cfgVars, engineVars, solveVars, driverVars, partitionVars,
                 intervalVars, pipelineVars, lateVars>>

\* lines 368-375: the conversions on the converters of every thread are
\* done and the block ends, which destroys the lock and so releases the
\* mutex when it was taken.
LeaveMeasConverters(s) ==
  /\ pc = "Predict"
  /\ predict_pc[s] = "meas_converters"
  /\ converting' = [converting EXCEPT ![s] = {}]
  /\ measures_owner' = IF measures_owner = s THEN 0 ELSE measures_owner
  /\ predict_pc' = [predict_pc EXCEPT ![s] =
                      IF moving_phase_ref_ THEN "phase_ref" ELSE "predict"]
  /\ UNCHANGED <<moving_phase_ref_, apply_beam_, measures_mutex_, beam_done>>
  /\ UNCHANGED <<cfgVars, engineVars, solveVars, driverVars, partitionVars,
                 intervalVars, pipelineVars, lateVars>>

\* lines 377-381: MDirection::Convert of the phase centre on meas_frame_[0],
\* entered by the main thread of the step
EnterPhaseRefConversion(s) ==
  /\ pc = "Predict"
  /\ predict_pc[s] = "phase_ref"
  /\ predict_pc' = [predict_pc EXCEPT ![s] = "phase_ref_convert"]
  /\ converting' = [converting EXCEPT ![s] = {0}]
  /\ UNCHANGED <<moving_phase_ref_, apply_beam_, measures_mutex_,
                 measures_owner, beam_done>>
  /\ UNCHANGED <<cfgVars, engineVars, solveVars, driverVars, partitionVars,
                 intervalVars, pipelineVars, lateVars>>

\* lines 381-385: the conversion has returned, phase_ref_ is set
LeavePhaseRefConversion(s) ==
  /\ pc = "Predict"
  /\ predict_pc[s] = "phase_ref_convert"
  /\ predict_pc' = [predict_pc EXCEPT ![s] = "predict"]
  /\ converting' = [converting EXCEPT ![s] = {}]
  /\ UNCHANGED <<moving_phase_ref_, apply_beam_, measures_mutex_,
                 measures_owner, beam_done>>
  /\ UNCHANGED <<cfgVars, engineVars, solveVars, driverVars, partitionVars,
                 intervalVars, pipelineVars, lateVars>>

\* OnePredict::addBeamToData, lines 671-678 (and 703-712), run by pool
\* thread t of step s from the parallel loops of lines 520-615: the thread
\* enters dir2Itrf on meas_convertors_[thread].
addBeamToData(s, t) ==
  /\ pc = "Predict"
  /\ predict_pc[s] = "predict"
  /\ apply_beam_
  /\ t \notin converting[s]
  /\ t \notin beam_done[s]
  /\ converting' = [converting EXCEPT ![s] = @ \cup {t}]
  /\ UNCHANGED <<moving_phase_ref_, apply_beam_, measures_mutex_, predict_pc,
                 measures_owner, beam_done>>
  /\ UNCHANGED <<cfgVars, engineVars, solveVars, driverVars, partitionVars,
                 intervalVars, pipelineVars, lateVars>>

\* OnePredict::dir2Itrf, lines 660-669, returns to addBeamToData, which
\* applies the beam (lines 680-700) and returns
dir2Itrf(s, t) ==
  /\ pc = "Predict"
  /\ predict_pc[s] = "predict"
  /\ t \in converting[s]
  /\ converting' = [converting EXCEPT ![s] = @ \ {t}]
  /\ beam_done' = [beam_done EXCEPT ![s] = @ \cup {t}]
  /\ UNCHANGED <<moving_phase_ref_, apply_beam_, measures_mutex_, predict_pc,
                 measures_owner>>
  /\ UNCHANGED <<cfgVars, engineVars, solveVars, driverVars, partitionVars,
                 intervalVars, pipelineVars, lateVars>>

\* lines 617-657: the parallel loops have ended, the model data is summed
\* and handed to the next step
FinishPredict(s) ==
  /\ pc = "Predict"
  /\ predict_pc[s] = "predict"
  /\ apply_beam_ => beam_done[s] = PoolThreads
  /\ predict_pc' = [predict_pc EXCEPT ![s] = "done"]
  /\ UNCHANGED <<moving_phase_ref_, apply_beam_, measures_mutex_,
                 measures_owner, converting, beam_done>>
  /\ UNCHANGED <<cfgVars, engineVars, solveVars, driverVars, partitionVars,
                 intervalVars, pipelineVars, lateVars>>

\* The steps as constructed (line 74: measures_mutex_(nullptr)) and then
\* possibly given the shared mutex, each about to process a buffer.
MeasuresInit ==
  /\ moving_phase_ref_ \in BOOLEAN
  /\ apply_beam_ \in BOOLEAN
  /\ measures_mutex_ \in {"nullptr", "shared"}
  /\ predict_pc = [s \in PredictSteps |-> "start"]
  /\ measures_owner = 0
  /\ converting = [s \in PredictSteps |-> {}]
  /\ beam_done = [s \in PredictSteps |-> {}]
  /\ pc = "Predict"

MeasuresNext ==
  \E s \in PredictSteps :
    \/ EnterMeasConverters(s)
    \/ SkipMeasConverters(s)
    \/ LeaveMeasConverters(s)
    \/ EnterPhaseRefConversion(s)
    \/ LeavePhaseRefConversion(s)
    \/ \E t \in PoolThreads : addBeamToData(s, t)
    \/ \E t \in PoolThreads : dir2Itrf(s, t)
    \/ FinishPredict(s)

\* the predict steps while they are not exercised
MeasuresIdle ==
  /\ moving_phase_ref_ = FALSE
  /\ apply_beam_ = FALSE
  /\ measures_mutex_ = "nullptr"
  /\ predict_pc = <<>>
  /\ measures_owner = 0
  /\ converting = <<>>
  /\ beam_done = <<>>

(***************************************************************************)
(* Properties of the measures mutex                                        *)
(***************************************************************************)
\* C24: every measures conversion (the per-thread conversions at the start
\* of process, the conversion of a moving phase reference, dir2Itrf in
\* addBeamToData) runs while the step it belongs to holds the one shared
\* measures mutex, also when several predict steps run at the same time.
\* Stated for the steps that were given the mutex.
C24_ConversionsUnderMeasuresMutex ==
  measures_mutex_ = "shared" =>
    \A s \in DOMAIN converting :
      converting[s] # {} => measures_owner = s

(***************************************************************************)
(* SolutionInterval as the insertion test uses it,                         *)
(* base/test/unit/tSolutionInterval.cc:50-63                               *)
(***************************************************************************)
\* the buffer objects that InitBuffer can have made, known by their address
NBufferObjects == 5

\* largest buffer_size given to the constructor
MaxBufferSize == 4

BufferObjects == 1..NBufferObjects

\* the address of the copy that a copying container would make of a buffer
CopyOf(buffer) == buffer + NBufferObjects

\* variant: the interval stores a copy of the buffer it is handed
PushBackCopy(interval, buffer) == Append(interval, CopyOf(buffer))

\* SolutionInterval::PushBack as line 59 uses it: the interval takes over
\* the buffer object it is handed and puts it behind the ones it holds
PushBackObject(interval, buffer) == Append(interval, buffer)

\* SolutionInterval::Size, lines 57 and 60
Size(interval) == Len(interval)

\* line 59, solInt.PushBack(std::move(buffer)), for a buffer the caller
\* still owns and an interval that holds fewer than buffer_size buffers
PushBack(buffer) ==
  /\ pc = "Interval"
  /\ Size(solInt) < buffer_size
  /\ \A i \in 1..Len(pushed) : pushed[i] # buffer
  /\ solInt' = PushBackObject(solInt, buffer)
  /\ pushed' = Append(pushed, buffer)
  /\ UNCHANGED buffer_size
  /\ UNCHANGED <<cfgVars, engineVars, solveVars, driverVars, partitionVars,
                 measuresVars, pipelineVars, lateVars>>

\* lines 52-56: SolutionInterval solInt(buffer_size)
IntervalInit ==
  /\ buffer_size \in 1..MaxBufferSize
  /\ solInt = <<>>
  /\ pushed = <<>>
  /\ pc = "Interval"

IntervalNext == \E buffer \in BufferObjects : PushBack(buffer)

\* the interval while it is not exercised
IntervalIdle ==
  /\ buffer_size = 0
  /\ solInt = <<>>
  /\ pushed = <<>>

MaxDirections == 2

\* largest number of buffers given to process
MaxBuffers == 3

\* largest info().antennaUsed().size()
MaxAntennas == 2

\* the indices of result_steps_ and of a row of model_buffers_
Directions == 1..directions

\* a row of model_buffers_ as emplace_back(result_steps_.size()) makes it,
\* line 221
NullRow == [d \in Directions |-> 0]

\* variant: the constructor accepts a parset without directions
DirectionsEmptyIgnored(n) == FALSE

\* line 49: settings_.directions.empty()
DirectionsEmpty(n) == n = 0

\* SolverBase::Initialize, called at lines 118-120: a solver cannot be
\* initialized for no antennas or no directions
InitializeAccepts(nAntennas, nDirections) == nAntennas > 0 /\ nDirections > 0

\* BdaSolverBuffer as constructed at lines 103-104
NewSolverBuffer == [current_interval |-> 0, held |-> <<>>, done |-> <<>>]

\* BdaSolverBuffer::AppendAndWeight, called at line 258: the data buffer and
\* its model buffers are held for the interval of the data buffer
AppendAndWeight(sb, data, models, intervals) ==
  [sb EXCEPT !.held = Append(@, [data |-> data, models |-> models,
                                 interval |-> intervals[data]])]

\* the (data, model per direction) pairs that the solver buffer holds for
\* its current interval, which SolveData reads at lines 279-281
IntervalEntries(sb) ==
  SelectSeq(sb.held, LAMBDA e : e.interval = sb.current_interval)

\* BdaSolverBuffer::GetCurrentInterval, line 284
GetCurrentInterval(sb) == sb.current_interval

\* BdaSolverBuffer::IntervalIsComplete, line 264: data of a later interval
\* has arrived, so that none can follow for the current one
IntervalIsComplete(sb) ==
  \E i \in 1..Len(sb.held) : sb.held[i].interval > sb.current_interval

\* BdaSolverBuffer::AdvanceInterval, lines 266 and 413: the data buffers of
\* the current interval are done, the next interval becomes the current one
AdvanceInterval(sb) ==
  LET leaving == SelectSeq(sb.held, LAMBDA e : e.interval <= sb.current_interval)
  IN [current_interval |-> sb.current_interval + 1,
      held |-> SelectSeq(sb.held, LAMBDA e : e.interval > sb.current_interval),
      done |-> sb.done \o [i \in 1..Len(leaving) |-> leaving[i].data]]

\* BdaSolverBuffer::BufferCount, line 411
BufferCount(sb) == Len(sb.held)

\* variant: a row counts as complete when any of its slots is filled
RowIsCompleteAnySlot(row) == \E d \in DOMAIN row : row[d] # 0

\* lines 231-233: std::all_of over the front row with pointer_is_set
RowIsComplete(row) == \A d \in DOMAIN row : row[d] # 0

\* variant: results always go into new rows at the back of the queue
FirstFreeSlotAtBack(mb, d, queue_index) == Len(mb) + 1

\* lines 212-216: the first row, from queue_index on, whose slot for
\* direction d is empty; one past the last row when there is none
RECURSIVE FirstFreeSlot(_, _, _)
FirstFreeSlot(mb, d, queue_index) ==
  IF Len(mb) >= queue_index /\ mb[queue_index][d] # 0
  THEN FirstFreeSlot(mb, d, queue_index + 1)
  ELSE queue_index

\* lines 218-225: the results of direction d go into consecutive rows from
\* queue_index on, a new row being added at the back of the queue when
\* queue_index is past its last row
RECURSIVE PlaceResults(_, _, _, _)
PlaceResults(mb, d, results, queue_index) ==
  IF results = <<>>
  THEN mb
  ELSE LET grown == IF queue_index = Len(mb) + 1
                    THEN Append(mb, NullRow)
                    ELSE mb
       IN PlaceResults([grown EXCEPT ![queue_index][d] = Head(results)],
                       d, Tail(results), queue_index + 1)

\* lines 206-227: the loop over the directions from direction d on;
\* results[d] is what result_steps_[d]->Extract() returns
RECURSIVE ExtractResultsFrom(_, _, _)
ExtractResultsFrom(mb, results, d) ==
  IF d > directions
  THEN mb
  ELSE ExtractResultsFrom(
         IF results[d] = <<>>
         THEN mb
         ELSE PlaceResults(mb, d, results[d], FirstFreeSlot(mb, d, 1)),
         results, d + 1)

\* BdaDdeCal::ExtractResults, lines 204-228
ExtractResults(mb, results) == ExtractResultsFrom(mb, results, 1)

\* BdaDdeCal::SolveCurrentInterval, lines 275-284, as a call made by
\* caller: the interval it solves is solutions_.size(), which line 284
\* asserts to be the current interval of the solver buffer, and its data are
\* the pairs that the solver buffer holds for the current interval.
CallSolveCurrentInterval(st, caller) ==
  LET current_interval == Len(st.solve_calls)
  IN [st EXCEPT
        !.solve_calls =
           Append(@, [interval |-> current_interval,
                      buffer_interval |-> GetCurrentInterval(st.solver_buffer_),
                      pairs |-> IntervalEntries(st.solver_buffer_),
                      caller |-> caller]),
        !.assert_failed =
           IF current_interval # GetCurrentInterval(st.solver_buffer_)
           THEN @ \cup {284}
           ELSE @]

\* variant: the interval is advanced twice after a solve
SolveAndAdvanceTwice(st, caller) ==
  [CallSolveCurrentInterval(st, caller) EXCEPT
     !.solver_buffer_ = AdvanceInterval(AdvanceInterval(@))]

\* the body of the loops of lines 264-267 and 411-414
SolveAndAdvance(st, caller) ==
  [CallSolveCurrentInterval(st, caller) EXCEPT
     !.solver_buffer_ = AdvanceInterval(@)]

\* lines 264-267: while (solver_buffer_->IntervalIsComplete())
RECURSIVE SolveCompleteIntervals(_, _)
SolveCompleteIntervals(st, caller) ==
  IF IntervalIsComplete(st.solver_buffer_)
  THEN SolveCompleteIntervals(SolveAndAdvance(st, caller), caller)
  ELSE st

\* lines 411-414: while (solver_buffer_->BufferCount() > 0)
RECURSIVE SolveRemainingIntervals(_)
SolveRemainingIntervals(st) ==
  IF BufferCount(st.solver_buffer_) > 0
  THEN SolveRemainingIntervals(SolveAndAdvance(st, "finish"))
  ELSE st

\* variant: the loop of finish solves before it tests
SolveRemainingIntervalsFirst(st) ==
  SolveRemainingIntervals(SolveAndAdvance(st, "finish"))

\* lines 411-414 as finish runs them
SolveAtFinish(st) == SolveRemainingIntervals(st)

\* variant: the buffers that were passed on stay in the list of GetDone()
SendDoneKeepDone(st) ==
  [st EXCEPT
     !.next_step =
        @ \o [i \in 1..Len(st.solver_buffer_.done) |->
                [call |-> "process", data |-> st.solver_buffer_.done[i],
                 models |-> <<>>, sum |-> 0]]]

\* lines 269-271 and 415-417: the buffers of GetDone() go to the next step
SendDone(st) ==
  [st EXCEPT
     !.next_step =
        @ \o [i \in 1..Len(st.solver_buffer_.done) |->
                [call |-> "process", data |-> st.solver_buffer_.done[i],
                 models |-> <<>>, sum |-> 0]],
     !.solver_buffer_.done = <<>>]

\* the visibilities of the model buffer that the predict sub-step of
\* direction d makes of buffer k, as one number
ModelData(d, k) == d * k

\* variant: the data of the front buffer go on as they are
AddDirectionsFrontOnly(row) == ModelData(1, row[1])

\* lines 241-249: data[j] += other_data[j] for the directions after the
\* first, from direction dir on, data being the data of the front buffer
RECURSIVE AddDirectionsFrom(_, _, _)
AddDirectionsFrom(data, row, dir) ==
  IF dir > Len(row)
  THEN data
  ELSE AddDirectionsFrom(data + ModelData(dir, row[dir]), row, dir + 1)

\* lines 239-249: the data of the front buffer after the loop
AddDirections(row) == AddDirectionsFrom(ModelData(1, row[1]), row, 2)

\* variant: process keeps no data buffer
PushDataBufferNever(queue, k) == queue

\* line 198: if (!settings_.only_predict) data_buffers_.push_back(...)
PushDataBuffer(queue, k) == IF only_predict THEN queue ELSE Append(queue, k)

\* lines 231-261: the loop over the complete rows at the front of
\* model_buffers_
RECURSIVE ForwardCompleteRows(_)
ForwardCompleteRows(st) ==
  IF st.model_buffers_ # <<>> /\ RowIsComplete(Head(st.model_buffers_))
  THEN IF only_predict
       \* lines 236-251: the sum of the model buffers goes to the next step
       THEN ForwardCompleteRows(
              [st EXCEPT
                 !.next_step =
                    Append(@, [call |-> "process", data |-> 0,
                               models |-> Head(st.model_buffers_),
                               sum |-> AddDirections(Head(st.model_buffers_))]),
                 !.model_buffers_ = Tail(@)])
       \* line 253: assert(!data_buffers_.empty() && data_buffers_.front())
       ELSE IF st.data_buffers_ = <<>>
       THEN [st EXCEPT !.assert_failed = @ \cup {253}]
       \* lines 255-260
       ELSE ForwardCompleteRows(
              [st EXCEPT
                 !.solver_buffer_ =
                    AppendAndWeight(@, Head(st.data_buffers_),
                                    Head(st.model_buffers_),
                                    st.buffer_interval),
                 !.appended =
                    Append(@, [data |-> Head(st.data_buffers_),
                               models |-> Head(st.model_buffers_)]),
                 !.data_buffers_ = Tail(@),
                 !.model_buffers_ = Tail(@)])
  ELSE st

\* BdaDdeCal::ProcessCompleteDirections, lines 230-273
ProcessCompleteDirections(st, caller) ==
  IF only_predict
  THEN ForwardCompleteRows(st)
  ELSE SendDone(SolveCompleteIntervals(ForwardCompleteRows(st), caller))

\* the queues and logs of the step as one record
StepState ==
  [buffer_interval |-> buffer_interval,
   data_buffers_ |-> data_buffers_,
   model_buffers_ |-> model_buffers_,
   solver_buffer_ |-> solver_buffer_,
   appended |-> appended,
   solve_calls |-> solve_calls,
   next_step |-> next_step,
   assert_failed |-> assert_failed]

\* the step's queues and logs become those of st
BecomeStepState(st) ==
  /\ buffer_interval' = st.buffer_interval
  /\ data_buffers_' = st.data_buffers_
  /\ model_buffers_' = st.model_buffers_
  /\ solver_buffer_' = st.solver_buffer_
  /\ appended' = st.appended
  /\ solve_calls' = st.solve_calls
  /\ next_step' = st.next_step
  /\ assert_failed' = st.assert_failed

\* variant: a solver with constraints is accepted
HasConstraintsIgnored(constraints) == FALSE

\* lines 57-58: some constraint solver has a constraint,
\* !constraint_solver->GetConstraints().empty()
HasConstraints(constraints) == constraints

\* BdaDdeCal::BdaDdeCal, lines 30-67, for a parset whose solver has
\* constraints or not
Construct(constraints) ==
  /\ pc = "Pipeline"
  /\ step_state = "parset"
  /\ step_state' =
       \* lines 49-52
       IF DirectionsEmpty(directions) THEN "construction_failed"
       \* lines 55-63
       ELSE IF ~only_predict /\ HasConstraints(constraints)
       THEN "construction_failed"
       ELSE "constructed"
  \* lines 69-83: one predict step and one result step per direction
  /\ predict_held' = [d \in Directions |-> <<>>]
  \* line 56: the solver is created before its constraints are looked at
  /\ solver_' = IF DirectionsEmpty(directions) \/ only_predict
                THEN "null"
                ELSE IF constraints THEN "constrained" ELSE "unconstrained"
  \* lines 64-65
  /\ solution_writer_' = (step_state' = "constructed" /\ ~only_predict)
  /\ UNCHANGED <<directions, only_predict, n_antennas, buffer_interval,
                 data_buffers_, model_buffers_, solver_buffer_, appended,
                 solve_calls, next_step, assert_failed>>
  /\ UNCHANGED <<cfgVars, engineVars, solveVars, driverVars, partitionVars,
                 measuresVars, intervalVars, lateVars>>

\* BdaDdeCal::updateInfo, lines 85-144, for an info with n_ant used antennas
SetInfo(n_ant) ==
  /\ pc = "Pipeline"
  /\ step_state = "constructed"
  /\ n_antennas' = n_ant
  \* lines 103-104
  /\ solver_buffer_' = NewSolverBuffer
  \* lines 117-120
  /\ step_state' = IF ~only_predict /\ ~InitializeAccepts(n_ant, directions)
                   THEN "initialization_failed"
                   ELSE "ready"
  /\ UNCHANGED <<directions, only_predict, buffer_interval, predict_held,
                 data_buffers_, model_buffers_, appended, solve_calls,
                 next_step, assert_failed, solver_, solution_writer_>>
  /\ UNCHANGED <<cfgVars, engineVars, solveVars, driverVars, partitionVars,
                 measuresVars, intervalVars, lateVars>>

\* the intervals that the time of the next buffer can fall in: the data
\* come in the order of time and leave out no interval
NextIntervals ==
  IF buffer_interval = <<>>
  THEN {0}
  ELSE {buffer_interval[Len(buffer_interval)],
        buffer_interval[Len(buffer_interval)] + 1}

\* BdaDdeCal::process, lines 180-202, for a buffer whose time falls in
\* interval; emit[d] is the number of buffers that the predict sub-step of
\* direction d passes on to its result step during lines 184-197.
process(interval, emit) ==
  LET k == Len(buffer_interval) + 1
      given == [d \in Directions |-> Append(predict_held[d], k)]
      results == [d \in Directions |-> SubSeq(given[d], 1, emit[d])]
      entered ==
        [StepState EXCEPT
           !.buffer_interval = Append(@, interval),
           \* line 198
           !.data_buffers_ = PushDataBuffer(@, k),
           \* line 199
           !.model_buffers_ = ExtractResults(@, results)]
  IN /\ pc = "Pipeline"
     /\ step_state = "ready"
     /\ k <= MaxBuffers
     /\ interval \in NextIntervals
     /\ \A d \in Directions : emit[d] <= Len(given[d])
     /\ predict_held' =
          [d \in Directions |-> SubSeq(given[d], emit[d] + 1, Len(given[d]))]
     \* line 200
     /\ BecomeStepState(ProcessCompleteDirections(entered, "process"))
     /\ UNCHANGED <<step_state, directions, only_predict, n_antennas,
                    solver_, solution_writer_>>
     /\ UNCHANGED <<cfgVars, engineVars, solveVars, driverVars, partitionVars,
                    measuresVars, intervalVars, lateVars>>

\* BdaDdeCal::finish, lines 401-422
finish ==
  LET \* lines 402-404: every predict sub-step passes on what it holds
      extracted ==
        [StepState EXCEPT !.model_buffers_ = ExtractResults(@, predict_held)]
      \* lines 405-406
      completed == ProcessCompleteDirections(extracted, "finish")
      \* line 407: assert(data_buffers_.empty())
      asserted ==
        [completed EXCEPT
           !.assert_failed = IF completed.data_buffers_ # <<>>
                             THEN @ \cup {407}
                             ELSE @]
      \* lines 409-418
      solved == IF only_predict
                THEN asserted
                ELSE SendDone(SolveAtFinish(asserted))
      \* line 421: getNextStep()->finish()
      finished ==
        [solved EXCEPT
           !.next_step = Append(@, [call |-> "finish", data |-> 0,
                                    models |-> <<>>, sum |-> 0])]
  IN /\ pc = "Pipeline"
     /\ step_state = "ready"
     /\ step_state' = "finished"
     /\ predict_held' = [d \in Directions |-> <<>>]
     /\ BecomeStepState(finished)
     /\ UNCHANGED <<directions, only_predict, n_antennas, solver_,
                    solution_writer_>>
     /\ UNCHANGED <<cfgVars, engineVars, solveVars, driverVars, partitionVars,
                    measuresVars, intervalVars, lateVars>>

\* the parset of the step, before the step is constructed
PipelineInit ==
  /\ step_state = "parset"
  /\ directions \in 0..MaxDirections
  /\ only_predict \in BOOLEAN
  /\ n_antennas = 0
  /\ buffer_interval = <<>>
  /\ predict_held = <<>>
  /\ data_buffers_ = <<>>
  /\ model_buffers_ = <<>>
  /\ solver_buffer_ = NewSolverBuffer
  /\ appended = <<>>
  /\ solve_calls = <<>>
  /\ next_step = <<>>
  /\ assert_failed = {}
  /\ solver_ = "null"
  /\ solution_writer_ = FALSE
  /\ pc = "Pipeline"

PipelineNext ==
  \/ \E constraints \in BOOLEAN : Construct(constraints)
  \/ \E n_ant \in 0..MaxAntennas : SetInfo(n_ant)
  \/ \E interval \in 0..MaxBuffers, emit \in [Directions -> 0..MaxBuffers] :
       process(interval, emit)
  \/ finish

\* the step while it is not exercised
PipelineIdle ==
  /\ step_state = "parset"
  /\ directions = 0
  /\ only_predict = FALSE
  /\ n_antennas = 0
  /\ buffer_interval = <<>>
  /\ predict_held = <<>>
  /\ data_buffers_ = <<>>
  /\ model_buffers_ = <<>>
  /\ solver_buffer_ = NewSolverBuffer
  /\ appended = <<>>
  /\ solve_calls = <<>>
  /\ next_step = <<>>
  /\ assert_failed = {}
  /\ solver_ = "null"
  /\ solution_writer_ = FALSE

(***************************************************************************)
(* Properties of the buffers on their way to the solver                    *)
(***************************************************************************)
\* the slot of direction d is filled in row i of model_buffers_
SlotFilled(i, d) == model_buffers_[i][d] # 0

\* C30: the k-th buffer given to process is handed to the solver buffer
\* together with the k-th model buffer that the predict sub-step of each
\* direction delivered, however the sub-steps delay or batch their output
\* and whichever direction delivers first; in model_buffers_ the filled
\* slots of each direction are a prefix of the queue without gaps.
C30_PairedInOrder ==
  /\ \A k \in 1..Len(appended) :
       /\ appended[k].data = k
       /\ DOMAIN appended[k].models = Directions
       /\ \A d \in Directions : appended[k].models[d] = k
  /\ \A d \in Directions :
       \A i \in 1..Len(model_buffers_) :
         SlotFilled(i, d) => \A j \in 1..i : SlotFilled(j, d)

\* C30 witness: two buffers have reached the solver buffer in pairs while
\* the third waits in the queue with the model of the second direction
\* delivered and that of the first direction still missing.
C30_Witness ==
  /\ directions = 2
  /\ ~only_predict
  /\ Len(appended) = 2
  /\ appended[2] = [data |-> 2, models |-> <<2, 2>>]
  /\ data_buffers_ = <<3>>
  /\ model_buffers_ = << <<0, 3>> >>
  /\ predict_held[1] = <<3>>

\* the data buffers that were handed to the solver buffer
AppendedData == {appended[k].data : k \in 1..Len(appended)}

\* the model buffers that were handed to the solver buffer for direction d
AppendedModels(d) == {appended[k].models[d] : k \in 1..Len(appended)}

\* C26: every data buffer is handed to the solver buffer at most once and
\* always together with exactly one model buffer, not null, for every
\* direction; once handed over, the data buffer is no longer in
\* data_buffers_ and its model buffers are no longer in model_buffers_.
C26_AppendedOnceWithAllModels ==
  /\ \A j \in 1..Len(appended), k \in 1..Len(appended) :
       appended[j].data = appended[k].data => j = k
  /\ \A k \in 1..Len(appended) :
       /\ DOMAIN appended[k].models = Directions
       /\ \A d \in Directions : appended[k].models[d] # 0
  /\ \A i \in 1..Len(data_buffers_) : data_buffers_[i] \notin AppendedData
  /\ \A i \in 1..Len(model_buffers_) :
       \A d \in Directions : model_buffers_[i][d] \notin AppendedModels(d)
  /\ ~only_predict =>
       Len(data_buffers_) + Len(appended) = Len(buffer_interval)

\* C26 witness: of three buffers the first was handed over with the models
\* of both directions; the other two wait in data_buffers_, their rows in
\* model_buffers_ still incomplete.
C26_Witness ==
  /\ directions = 2
  /\ ~only_predict
  /\ appended = << [data |-> 1, models |-> <<1, 1>>] >>
  /\ data_buffers_ = <<2, 3>>
  /\ model_buffers_ = << <<2, 0>>, <<3, 0>> >>

(***************************************************************************)
(* Properties of the solves of the intervals                               *)
(***************************************************************************)
\* the buffers given to process whose time falls in interval n
BuffersOfInterval(n) ==
  {k \in 1..Len(buffer_interval) : buffer_interval[k] = n}

C22_SolvedInOrder ==
  /\ \A n \in 1..Len(solve_calls) :
       /\ solve_calls[n].interval = n - 1
       /\ solve_calls[n].buffer_interval = n - 1
  /\ GetCurrentInterval(solver_buffer_) = Len(solve_calls)
  /\ 284 \notin assert_failed

\* C22 witness: three intervals solved, the first two from process and the
\* last from finish, the solver buffer advanced three times.
C22_Witness ==
  /\ Len(solve_calls) = 3
  /\ solve_calls[1].caller = "process"
  /\ solve_calls[2].caller = "process"
  /\ solve_calls[3].caller = "finish"
  /\ solve_calls[3].buffer_interval = 2
  /\ GetCurrentInterval(solver_buffer_) = 3

(***************************************************************************)
(* Properties of the checks of the configuration                           *)
(***************************************************************************)
\* the step has thrown
Rejected == step_state \in {"construction_failed", "initialization_failed"}

\* a buffer was processed or an interval solved
Worked == buffer_interval # <<>> \/ solve_calls # <<>> \/ appended # <<>>

C31_DataBufferPresent ==
  ~only_predict =>
    /\ 253 \notin assert_failed
    /\ Len(model_buffers_) <= Len(data_buffers_)
    /\ \A i \in 1..Len(model_buffers_) :
         \A d \in Directions :
           SlotFilled(i, d) => model_buffers_[i][d] = data_buffers_[i]

\* C31 witness: the first buffer was handed to the solver buffer when its
\* row became complete, the second waits with the row that is its own.
C31_Witness ==
  /\ ~only_predict
  /\ directions = 2
  /\ Len(appended) = 1
  /\ data_buffers_ = <<2>>
  /\ model_buffers_ = << <<0, 2>> >>
  /\ assert_failed = {}

\* the calls of process on the next step that passed on data buffer k
ForwardsOf(k) ==
  {i \in 1..Len(next_step) :
     next_step[i].call = "process" /\ next_step[i].data = k}

\* C32: when finish has returned in solve mode, data_buffers_ is empty, the
\* solver buffer holds no buffer, and every buffer that was given to
\* process has been passed on to the next step exactly once, before the
\* one call of finish on the next step, every sub-step having delivered a
\* model buffer for every buffer by the end of its finish.
C32_FinishDrainsEverything ==
  (step_state = "finished" /\ ~only_predict) =>
    /\ data_buffers_ = <<>>
    /\ model_buffers_ = <<>>
    /\ BufferCount(solver_buffer_) = 0
    /\ solver_buffer_.done = <<>>
    /\ Len(next_step) = Len(buffer_interval) + 1
    /\ next_step[Len(next_step)].call = "finish"
    /\ \A k \in 1..Len(buffer_interval) :
         /\ Cardinality(ForwardsOf(k)) = 1
         /\ \A i \in ForwardsOf(k) : i < Len(next_step)

\* C32 witness: three buffers of two intervals, the last of them still held
\* by the sub-steps until finish, all passed on in order before the finish
\* of the next step.
C32_Witness ==
  /\ step_state = "finished"
  /\ ~only_predict
  /\ directions = 2
  /\ buffer_interval = <<0, 0, 1>>
  /\ Len(next_step) = 4
  /\ next_step[1].data = 1
  /\ next_step[3].data = 3
  /\ next_step[4].call = "finish"
  /\ solve_calls[2].caller = "finish"
  /\ Len(solve_calls[1].pairs) = 2

\* the calls of process on the next step
ForwardedRows == SelectSeq(next_step, LAMBDA c : c.call = "process")

\* C33: in only_predict mode no input buffer is kept and no solve is
\* started; for every complete front row one buffer is passed on to the
\* next step, its data the sum over the directions of the model data of
\* the row, and the rows are passed on in the order in which the buffers
\* came in.
C33_OnlyPredictForwardsSums ==
  only_predict =>
    /\ data_buffers_ = <<>>
    /\ appended = <<>>
    /\ solve_calls = <<>>
    /\ BufferCount(solver_buffer_) = 0
    /\ \A i \in 1..Len(ForwardedRows) :
         /\ ForwardedRows[i].models = [d \in Directions |-> i]
         /\ ForwardedRows[i].sum =
              SumOver([d \in Directions |-> ModelData(d, i)], Directions)
    /\ \A i \in 1..Len(model_buffers_) :
         /\ ~RowIsComplete(model_buffers_[i])
         /\ \A d \in Directions :
              SlotFilled(i, d) =>
                model_buffers_[i][d] = Len(ForwardedRows) + i

\* C33 witness: two rows of two directions passed on as sums, the third
\* row waiting for its second direction.
C33_Witness ==
  /\ only_predict
  /\ directions = 2
  /\ Len(next_step) = 2
  /\ next_step[1].sum = 3
  /\ next_step[2].sum = 6
  /\ model_buffers_ = << <<3, 0>> >>
  /\ step_state = "ready"

\* the step exists: its constructor has returned
Constructed == step_state \in {"constructed", "ready", "finished",
                               "initialization_failed"}

\* C34: the constructor of a step that solves fails when a constraint
\* solver of its solver carries a constraint, so that no step that solves
\* has a solver with constraints; a step that only predicts has neither a
\* solver nor a solution writer.
C34_NoConstraintsInSolveMode ==
  /\ (~only_predict /\ solver_ = "constrained") =>
       step_state = "construction_failed"
  /\ (Constructed /\ ~only_predict) =>
       solver_ = "unconstrained" /\ solution_writer_
  /\ solve_calls # <<>> => solver_ = "unconstrained"
  /\ only_predict => solver_ = "null" /\ ~solution_writer_

\* C34 witness: a parset with a direction whose solver has a constraint,
\* rejected by the constructor, no solution writer made.
C34_Witness ==
  /\ step_state = "construction_failed"
  /\ directions = 1
  /\ ~only_predict
  /\ solver_ = "constrained"
  /\ ~solution_writer_

(***************************************************************************)
(* MultiResultStep, MultiResultStep.cc:13-36                               *)
(***************************************************************************)
\* largest size given to the constructor
MaxResultSize == 3

\* largest number of calls of process on one step
MaxResultCalls == 4

\* the contents that a buffer can have
BufferValues == 1..2

\* variant: a step counts as full only when size_ is past the capacity
IsFullPastEnd(size, capacity) == size > capacity

\* line 18: size_ >= buffers_.size()
IsFull(size, capacity) == size >= capacity

\* MultiResultStep::process, lines 17-36, for the n-th buffer handed to the
\* step, with contents value
MultiResultProcess(value) ==
  LET n == Len(result_calls) + 1
      full == IsFull(size_, Len(buffers_))
      \* lines 27-30: a copy is stored and the buffer goes to the next
      \* step; lines 31-34: the buffer itself is stored
      stored == [id |-> n, value |-> value, copy |-> ~next_is_null]
  IN /\ pc = "MultiResult"
     /\ n <= MaxResultCalls
     /\ buffers_' = IF full
                    THEN buffers_
                    ELSE [i \in DOMAIN buffers_ |->
                            IF i = size_ + 1 THEN stored ELSE buffers_[i]]
     /\ size_' = IF full THEN size_ ELSE size_ + 1
     /\ result_calls' =
          Append(result_calls,
                 [value |-> value,
                  size_before |-> size_,
                  returned |-> ~full,
                  forwarded |-> ~full /\ ~next_is_null])
     /\ UNCHANGED next_is_null
     /\ UNCHANGED <<earlyVars, otherThanMultiResult>>

\* a slot of buffers_ that holds no buffer
NullSlot == [id |-> 0, value |-> 0, copy |-> FALSE]

\* MultiResultStep::MultiResultStep, lines 13-15, for a size, and a next
\* step that was left as it is or set to a step that is not a NullStep
MultiResultInit ==
  /\ \E size \in 0..MaxResultSize : buffers_ = [i \in 1..size |-> NullSlot]
  /\ size_ = 0
  /\ next_is_null \in BOOLEAN
  /\ result_calls = <<>>
  /\ pc = "MultiResult"

MultiResultNext == \E value \in BufferValues : MultiResultProcess(value)

\* the step while it is not exercised
MultiResultIdle ==
  /\ buffers_ = <<>>
  /\ size_ = 0
  /\ next_is_null = TRUE
  /\ result_calls = <<>>

(***************************************************************************)
(* Properties of MultiResultStep                                           *)
(***************************************************************************)
\* C35: a MultiResultStep never stores more buffers than its capacity:
\* size_ <= buffers_.size() after any sequence of process calls; a call
\* that is accepted stores the buffer at index size_ and increases size_ by
\* one; a call on a full step returns false and neither stores the buffer,
\* nor changes size_, nor passes the buffer on to the next step.
C35_NeverBeyondCapacity ==
  /\ size_ <= Len(buffers_)
  /\ size_ = Cardinality({n \in 1..Len(result_calls) :
                            result_calls[n].returned})
  /\ \A n \in 1..Len(result_calls) :
       LET call == result_calls[n]
       IN IF call.size_before < Len(buffers_)
          THEN /\ call.returned
               /\ buffers_[call.size_before + 1].id = n
               /\ buffers_[call.size_before + 1].value = call.value
               /\ call.forwarded = ~next_is_null
          ELSE /\ ~call.returned
               /\ \A i \in 1..Len(buffers_) : buffers_[i].id # n
               /\ ~call.forwarded
               /\ n < Len(result_calls) =>
                    result_calls[n + 1].size_before = call.size_before

\* C35 witness: a step of size 2 with a next step that is no NullStep took
\* two buffers, passed both on, and then refused two more.
C35_Witness ==
  /\ Len(buffers_) = 2
  /\ ~next_is_null
  /\ size_ = 2
  /\ Len(result_calls) = 4
  /\ result_calls[2].returned /\ result_calls[2].forwarded
  /\ ~result_calls[3].returned /\ ~result_calls[3].forwarded
  /\ ~result_calls[4].returned
  /\ buffers_[2].id = 2

(***************************************************************************)
(* The Demixer, DPPP/src/Demixer.cc: the counters of process and finish,   *)
(* and the parallel loop of demix                                          *)
(***************************************************************************)
\* largest ntimechunk of the parset; 0 asks for the number of threads
MaxTimeChunk == 2

\* largest timestep and demixtimestep of the parset
MaxTimeStep == 3

\* largest number of time slots of the input
MaxTimeSlots == 4

\* largest OpenMP::maxThreads()
MaxDemixThreads == 2

\* number of sources with a model, when there are any
MaxModels == 1

\* the values that a vector of unknowns can have: IdentitySolution is the
\* vector that updateInfo fills itsLastKnowns with, ZeroSolution the one
\* that resize fills itsUnknowns with
ZeroSolution == 0
IdentitySolution == 1
MaxSolution == 2
SolutionValues == IdentitySolution..MaxSolution

\* a thread that is in no iteration of the parallel loop
NoSlot == -1

DemixThreads == 0..(maxThreads - 1)

\* std::min
Min(a, b) == IF a < b THEN a ELSE b

\* DPInfo::update, the number of time slots after averaging timeAvg of them
InfoUpdateNTime(ntime, timeAvg) == (ntime + timeAvg - 1) \div timeAvg

\* an Averager followed by a MultiResultStep, as made at lines 200-204,
\* 210-215 and 218-222: the Averager averages step time slots, of which it
\* holds times, and the MultiResultStep holds size buffers of the capacity it
\* was constructed with
AveragedResult(timeAvg, reserveSize) ==
  [step |-> timeAvg, times |-> 0, size |-> 0, capacity |-> reserveSize]

\* Averager::process followed by MultiResultStep::process: the result step
\* gets a buffer once step time slots were averaged
AveragerProcess(result) ==
  IF result.times + 1 >= result.step
  THEN [result EXCEPT !.times = 0, !.size = @ + 1]
  ELSE [result EXCEPT !.times = @ + 1]

\* Averager::finish: the time slots averaged so far are given to the result
\* step
AveragerFinish(result) ==
  IF result.times > 0
  THEN [result EXCEPT !.times = 0, !.size = @ + 1]
  ELSE result

\* Averager::updateInfo, called at line 261
AveragerSetInfo(result, ntime) ==
  IF averager_clamps
  THEN [result EXCEPT !.step = Min(@, ntime)]
  ELSE result

\* MultiResultStep::clear
ClearResult(result) == [result EXCEPT !.size = 0]

\* the buffer that the result step got between before and after, if any
ReceivedBy(name, before, after) ==
  IF after.size > before.size
  THEN {[step |-> name, index |-> before.size, capacity |-> before.capacity]}
  ELSE {}

\* a write to element index of the vector called name, which has size
FactorWrite(name, written, index, size) ==
  IF written THEN {[buffer |-> name, index |-> index, size |-> size]} ELSE {}

\* line 441: itsTimeIndex += itsNTimeChunk
NextTimeIndex(timeIndex, nTimeChunk) == timeIndex + nTimeChunk

\* variant: the subtract chunk is as long as the demix chunk
NTimeChunkSubtrAsChunk(nTimeChunk, nTimeAvg, nTimeAvgSubtr) == nTimeChunk

\* line 138
NTimeChunkSubtr(nTimeChunk, nTimeAvg, nTimeAvgSubtr) ==
  (nTimeChunk * nTimeAvg) \div nTimeAvgSubtr

\* Demixer::Demixer, lines 72-229, for the values of the parset that pass
\* the ASSERTSTR of line 136
DemixerInit ==
  /\ pc = "Demixer"
  /\ maxThreads \in 1..MaxDemixThreads
  /\ averager_clamps \in BOOLEAN
  /\ itsNModel \in {0, MaxModels}
  /\ \E ntimechunk \in 0..MaxTimeChunk :
       \* lines 132-134
       itsNTimeChunk = IF ntimechunk = 0 THEN maxThreads ELSE ntimechunk
  /\ itsNTimeAvgSubtr \in 1..MaxTimeStep
  /\ itsNTimeAvg \in 1..MaxTimeStep
  /\ (itsNTimeChunk * itsNTimeAvg) % itsNTimeAvgSubtr = 0
  /\ itsNTimeChunkSubtr =
       NTimeChunkSubtr(itsNTimeChunk, itsNTimeAvg, itsNTimeAvgSubtr)
  /\ itsFactors = itsNTimeChunk
  /\ itsFactorsSubtr = itsNTimeChunkSubtr
  /\ itsAvgResults = AveragedResult(itsNTimeAvg, itsNTimeChunk)
  /\ itsAvgResultSubtr = AveragedResult(itsNTimeAvgSubtr, itsNTimeChunkSubtr)
  /\ itsNTimeDemix = 0
  /\ itsNTimeIn = 0
  /\ itsNTimeOut = 0
  /\ itsNTimeOutSubtr = 0
  /\ itsTimeIndex = 0
  /\ info_ntime = 0
  /\ itsUnknowns = [slice \in {} |-> ZeroSolution]
  /\ itsLastKnowns = ZeroSolution
  /\ threadStorage = [t \in DemixThreads |-> ZeroSolution]
  /\ slots_todo = {}
  /\ thread_slot = [t \in DemixThreads |-> NoSlot]
  /\ demixer_calls = 0
  /\ chunks_completed = 0
  /\ factor_writes = {}
  /\ results_received = {}
  /\ unknown_writes = {}
  /\ start_estimates = {}
  /\ demix_pc = "constructed"

\* Demixer::updateInfo, lines 231-304, for an input of ntime time slots
DemixerUpdateInfo(ntime) ==
  LET nTimeAvg == Min(itsNTimeAvg, ntime)
      nTimeAvgSubtr == Min(itsNTimeAvgSubtr, ntime)
      nTimeDemix == InfoUpdateNTime(ntime, nTimeAvg)
  IN /\ pc = "Demixer"
     /\ demix_pc = "constructed"
     /\ info_ntime' = ntime
     /\ itsNTimeAvg' = nTimeAvg
     /\ itsNTimeDemix' = nTimeDemix
     /\ itsAvgResults' = AveragerSetInfo(itsAvgResults, ntime)
     /\ itsAvgResultSubtr' = AveragerSetInfo(itsAvgResultSubtr, ntime)
     /\ itsNTimeAvgSubtr' = nTimeAvgSubtr
     /\ IF nTimeAvg % nTimeAvgSubtr # 0
        THEN \* the ASSERTSTR of line 273 throws
             /\ demix_pc' = "failed"
             /\ UNCHANGED <<itsUnknowns, itsLastKnowns>>
        ELSE /\ demix_pc' = "ready"
             /\ itsUnknowns' = [slice \in 0..(nTimeDemix - 1) |-> ZeroSolution]
             /\ itsLastKnowns' = IdentitySolution
     /\ UNCHANGED <<maxThreads, averager_clamps, itsNModel, itsNTimeChunk,
                    itsNTimeChunkSubtr, itsNTimeIn, itsNTimeOut,
                    itsNTimeOutSubtr, itsTimeIndex, itsFactors,
                    itsFactorsSubtr, threadStorage, slots_todo, thread_slot,
                    demixer_calls, chunks_completed, factor_writes,
                    results_received, unknown_writes, start_estimates>>
     /\ UNCHANGED <<earlyVars, otherThanDemixer>>

\* Demixer::demix up to the parallel loop, lines 750-779, called from caller
\* when the result steps hold nTime buffers
EnterDemix(caller, nTime) ==
  /\ demix_pc' = caller
  /\ threadStorage' = [t \in DemixThreads |-> itsLastKnowns]
  /\ slots_todo' = 0..(nTime - 1)
  /\ thread_slot' = [t \in DemixThreads |-> NoSlot]

\* lines 422-441 of process, with the result steps as they are at line 422
EndChunk(results, resultSubtr) ==
  /\ itsAvgResults' = ClearResult(results)
  /\ itsAvgResultSubtr' = ClearResult(resultSubtr)
  /\ itsNTimeIn' = 0
  /\ itsNTimeOut' = 0
  /\ itsNTimeOutSubtr' = 0
  /\ itsTimeIndex' = NextTimeIndex(itsTimeIndex, itsNTimeChunk)
  /\ chunks_completed' = chunks_completed + 1

\* Demixer::process, lines 361-446; when it calls demix with a model, the
\* action ends where the parallel loop starts
DemixerProcess ==
  LET nTimeIn == itsNTimeIn + 1
      results == AveragerProcess(itsAvgResults)
      resultSubtr == AveragerProcess(itsAvgResultSubtr)
      makes == nTimeIn % itsNTimeAvg = 0
      nTimeOut == IF makes THEN itsNTimeOut + 1 ELSE itsNTimeOut
      makesSubtr == nTimeIn % itsNTimeAvgSubtr = 0
      nTimeOutSubtr ==
        IF makesSubtr THEN itsNTimeOutSubtr + 1 ELSE itsNTimeOutSubtr
  IN /\ pc = "Demixer"
     /\ demix_pc = "ready"
     /\ demixer_calls < info_ntime
     /\ demixer_calls' = demixer_calls + 1
     /\ results_received' =
          results_received
            \cup ReceivedBy("itsAvgResults", itsAvgResults, results)
            \cup ReceivedBy("itsAvgResultSubtr", itsAvgResultSubtr,
                            resultSubtr)
     /\ factor_writes' =
          factor_writes
            \cup FactorWrite("itsFactors", makes, itsNTimeOut, itsFactors)
            \cup FactorWrite("itsFactorsSubtr", makesSubtr, itsNTimeOutSubtr,
                             itsFactorsSubtr)
     /\ IF nTimeOut # itsNTimeChunk
        THEN /\ itsNTimeIn' = nTimeIn
             /\ itsNTimeOut' = nTimeOut
             /\ itsNTimeOutSubtr' = nTimeOutSubtr
             /\ itsAvgResults' = results
             /\ itsAvgResultSubtr' = resultSubtr
             /\ UNCHANGED <<demix_pc, threadStorage, slots_todo, thread_slot,
                            itsTimeIndex, chunks_completed>>
        ELSE IF itsNModel > 0
        THEN /\ EnterDemix("process", results.size)
             /\ itsNTimeIn' = nTimeIn
             /\ itsNTimeOut' = nTimeOut
             /\ itsNTimeOutSubtr' = nTimeOutSubtr
             /\ itsAvgResults' = results
             /\ itsAvgResultSubtr' = resultSubtr
             /\ UNCHANGED <<itsTimeIndex, chunks_completed>>
        ELSE /\ EndChunk(results, resultSubtr)
             /\ UNCHANGED <<demix_pc, threadStorage, slots_todo, thread_slot>>
     /\ UNCHANGED <<maxThreads, info_ntime, averager_clamps, itsNModel,
                    itsNTimeChunk, itsNTimeChunkSubtr, itsNTimeAvg,
                    itsNTimeAvgSubtr, itsNTimeDemix, itsFactors,
                    itsFactorsSubtr, itsUnknowns, itsLastKnowns,
                    unknown_writes, start_estimates>>
     /\ UNCHANGED <<earlyVars, otherThanDemixer>>

\* Demixer::finish, lines 448-515; when it calls demix with a model, the
\* action ends where the parallel loop starts
DemixerFinish ==
  LET results == AveragerFinish(itsAvgResults)
      resultSubtr == AveragerFinish(itsAvgResultSubtr)
      makes == itsNTimeIn % itsNTimeAvg # 0
      nTimeOut == IF makes THEN itsNTimeOut + 1 ELSE itsNTimeOut
      makesSubtr == itsNTimeIn % itsNTimeAvgSubtr # 0
      nTimeOutSubtr ==
        IF makesSubtr THEN itsNTimeOutSubtr + 1 ELSE itsNTimeOutSubtr
  IN /\ pc = "Demixer"
     /\ demix_pc = "ready"
     /\ IF itsNTimeIn > 0
        THEN /\ results_received' =
                  results_received
                    \cup ReceivedBy("itsAvgResults", itsAvgResults, results)
                    \cup ReceivedBy("itsAvgResultSubtr", itsAvgResultSubtr,
                                    resultSubtr)
             /\ factor_writes' =
                  factor_writes
                    \cup FactorWrite("itsFactors", makes, itsNTimeOut,
                                     itsFactors)
                    \cup FactorWrite("itsFactorsSubtr", makesSubtr,
                                     itsNTimeOutSubtr, itsFactorsSubtr)
             /\ itsNTimeOut' = nTimeOut
             /\ itsNTimeOutSubtr' = nTimeOutSubtr
             \* lines 480-481
             /\ itsFactors' = nTimeOut
             /\ itsFactorsSubtr' = nTimeOutSubtr
             /\ IF itsNModel > 0
                THEN /\ EnterDemix("finish", results.size)
                     /\ itsAvgResults' = results
                     /\ itsAvgResultSubtr' = resultSubtr
                ELSE /\ demix_pc' = "finished"
                     /\ itsAvgResults' = ClearResult(results)
                     /\ itsAvgResultSubtr' = ClearResult(resultSubtr)
                     /\ UNCHANGED <<threadStorage, slots_todo, thread_slot>>
        ELSE /\ demix_pc' = "finished"
             /\ UNCHANGED <<results_received, factor_writes, itsNTimeOut,
                            itsNTimeOutSubtr, itsFactors, itsFactorsSubtr,
                            itsAvgResults, itsAvgResultSubtr, threadStorage,
                            slots_todo, thread_slot>>
     /\ UNCHANGED <<maxThreads, info_ntime, averager_clamps, itsNModel,
                    itsNTimeChunk, itsNTimeChunkSubtr, itsNTimeAvg,
                    itsNTimeAvgSubtr, itsNTimeDemix, itsNTimeIn, itsTimeIndex,
                    itsUnknowns, itsLastKnowns, demixer_calls,
                    chunks_completed, unknown_writes, start_estimates>>
     /\ UNCHANGED <<earlyVars, otherThanDemixer>>

\* line 832: estimate starts from what the thread's storage holds
StartingEstimate(storage, lastKnowns) == storage

\* variant: every iteration writes the slice of the first slot of the chunk
UnknownsSliceOfChunk(timeIndex, ts) == timeIndex

\* line 926: the slice of itsUnknowns for slot ts of the chunk
UnknownsSlice(timeIndex, ts) == timeIndex + ts

\* the body of the parallel loop of demix up to line 836: thread takes the
\* iteration of slot ts, and estimate leaves solved in its storage
DemixEstimate(thread, ts, solved) ==
  /\ pc = "Demixer"
  /\ demix_pc \in {"process", "finish"}
  /\ thread_slot[thread] = NoSlot
  /\ ts \in slots_todo
  /\ slots_todo' = slots_todo \ {ts}
  /\ thread_slot' = [thread_slot EXCEPT ![thread] = ts]
  /\ start_estimates' =
       start_estimates
         \cup {[timeIndex |-> itsTimeIndex, ts |-> ts,
                start |-> StartingEstimate(threadStorage[thread],
                                           itsLastKnowns),
                lastKnowns |-> itsLastKnowns]}
  /\ threadStorage' = [threadStorage EXCEPT ![thread] = solved]
  /\ UNCHANGED <<demix_pc, maxThreads, info_ntime, averager_clamps, itsNModel,
                 itsNTimeChunk, itsNTimeChunkSubtr, itsNTimeAvg,
                 itsNTimeAvgSubtr, itsNTimeDemix, itsNTimeIn, itsNTimeOut,
                 itsNTimeOutSubtr, itsTimeIndex, itsFactors, itsFactorsSubtr,
                 itsAvgResults, itsAvgResultSubtr, itsUnknowns, itsLastKnowns,
                 demixer_calls, chunks_completed, factor_writes,
                 results_received, unknown_writes>>
  /\ UNCHANGED <<earlyVars, otherThanDemixer>>

\* lines 924-926 of the body: the thread copies its storage to itsUnknowns
DemixCopy(thread) ==
  LET ts == thread_slot[thread]
      slice == UnknownsSlice(itsTimeIndex, ts)
  IN /\ pc = "Demixer"
     /\ demix_pc \in {"process", "finish"}
     /\ ts # NoSlot
     /\ thread_slot' = [thread_slot EXCEPT ![thread] = NoSlot]
     /\ unknown_writes' =
          unknown_writes
            \cup {[timeIndex |-> itsTimeIndex, ts |-> ts, slice |-> slice,
                   size |-> itsNTimeDemix, completed |-> chunks_completed]}
     \* a copy past the end of itsUnknowns does not land in it
     /\ itsUnknowns' = [s \in DOMAIN itsUnknowns |->
                          IF s = slice THEN threadStorage[thread]
                          ELSE itsUnknowns[s]]
     /\ UNCHANGED <<demix_pc, maxThreads, info_ntime, averager_clamps,
                    itsNModel, itsNTimeChunk, itsNTimeChunkSubtr, itsNTimeAvg,
                    itsNTimeAvgSubtr, itsNTimeDemix, itsNTimeIn, itsNTimeOut,
                    itsNTimeOutSubtr, itsTimeIndex, itsFactors,
                    itsFactorsSubtr, itsAvgResults, itsAvgResultSubtr,
                    itsLastKnowns, threadStorage, slots_todo, demixer_calls,
                    chunks_completed, factor_writes, results_received,
                    start_estimates>>
     /\ UNCHANGED <<earlyVars, otherThanDemixer>>

\* the end of the parallel loop, lines 929-942 of demix, and the rest of
\* the function that called it: lines 422-445 of process or 490-514 of
\* finish
DemixJoin ==
  LET nTime == itsAvgResults.size
      last == UnknownsSlice(itsTimeIndex, nTime - 1)
  IN /\ pc = "Demixer"
     /\ demix_pc \in {"process", "finish"}
     /\ slots_todo = {}
     /\ \A t \in DemixThreads : thread_slot[t] = NoSlot
     /\ IF nTime = 0
        THEN UNCHANGED itsLastKnowns
        ELSE IF last \in DOMAIN itsUnknowns
        THEN itsLastKnowns' = itsUnknowns[last]
        ELSE \* a read past the end of itsUnknowns
             itsLastKnowns' \in {ZeroSolution} \cup SolutionValues
     /\ IF demix_pc = "process"
        THEN /\ EndChunk(itsAvgResults, itsAvgResultSubtr)
             /\ demix_pc' = "ready"
        ELSE /\ itsAvgResults' = ClearResult(itsAvgResults)
             /\ itsAvgResultSubtr' = ClearResult(itsAvgResultSubtr)
             /\ demix_pc' = "finished"
             /\ UNCHANGED <<itsNTimeIn, itsNTimeOut, itsNTimeOutSubtr,
                            itsTimeIndex, chunks_completed>>
     /\ UNCHANGED <<maxThreads, info_ntime, averager_clamps, itsNModel,
                    itsNTimeChunk, itsNTimeChunkSubtr, itsNTimeAvg,
                    itsNTimeAvgSubtr, itsNTimeDemix, itsFactors,
                    itsFactorsSubtr, itsUnknowns, threadStorage, slots_todo,
                    thread_slot, demixer_calls, factor_writes,
                    results_received, unknown_writes, start_estimates>>
     /\ UNCHANGED <<earlyVars, otherThanDemixer>>

DemixerNext ==
  \/ \E ntime \in 1..MaxTimeSlots : DemixerUpdateInfo(ntime)
  \/ DemixerProcess
  \/ DemixerFinish
  \/ \E thread \in DemixThreads, ts \in slots_todo, solved \in SolutionValues :
       DemixEstimate(thread, ts, solved)
  \/ \E thread \in DemixThreads : DemixCopy(thread)
  \/ DemixJoin

\* the Demixer while it is not exercised
DemixerIdle ==
  /\ demix_pc = "constructed"
  /\ maxThreads = 1
  /\ info_ntime = 0
  /\ averager_clamps = FALSE
  /\ itsNModel = 0
  /\ itsNTimeChunk = 1
  /\ itsNTimeChunkSubtr = 1
  /\ itsNTimeAvg = 1
  /\ itsNTimeAvgSubtr = 1
  /\ itsNTimeDemix = 0
  /\ itsNTimeIn = 0
  /\ itsNTimeOut = 0
  /\ itsNTimeOutSubtr = 0
  /\ itsTimeIndex = 0
  /\ itsFactors = 1
  /\ itsFactorsSubtr = 1
  /\ itsAvgResults = AveragedResult(1, 1)
  /\ itsAvgResultSubtr = AveragedResult(1, 1)
  /\ itsUnknowns = [slice \in {} |-> ZeroSolution]
  /\ itsLastKnowns = ZeroSolution
  /\ threadStorage = [t \in DemixThreads |-> ZeroSolution]
  /\ slots_todo = {}
  /\ thread_slot = [t \in DemixThreads |-> NoSlot]
  /\ demixer_calls = 0
  /\ chunks_completed = 0
  /\ factor_writes = {}
  /\ results_received = {}
  /\ unknown_writes = {}
  /\ start_estimates = {}

(***************************************************************************)
(* Properties of the Demixer                                               *)
(***************************************************************************)
\* C36: every index that the Demixer uses into its chunk buffers is within
\* their capacity, for any calls of process followed by finish, also when
\* updateInfo has limited itsNTimeAvg and itsNTimeAvgSubtr to the number of
\* time slots: itsNTimeOut < itsNTimeChunk when itsFactors[itsNTimeOut] is
\* written, itsNTimeOutSubtr < itsNTimeChunkSubtr when
\* itsFactorsSubtr[itsNTimeOutSubtr] is written, and no MultiResultStep gets
\* more buffers between two clears than the size it was constructed with.
C36_ChunkIndicesWithinCapacity ==
  /\ \A w \in factor_writes :
       /\ w.index < w.size
       /\ w.buffer = "itsFactors" => w.index < itsNTimeChunk
       /\ w.buffer = "itsFactorsSubtr" => w.index < itsNTimeChunkSubtr
  /\ \A r \in results_received : r.index < r.capacity
  /\ itsAvgResults.size <= itsNTimeChunk
  /\ itsAvgResultSubtr.size <= itsNTimeChunkSubtr
  /\ itsNTimeOut <= itsNTimeChunk
  /\ itsNTimeOutSubtr <= itsNTimeChunkSubtr

\* C36 witness: updateInfo lowered itsNTimeAvg to the number of time slots,
\* so that a chunk takes fewer time slots than the constructor sized the
\* subtract buffers for; a chunk was completed in process, both vectors of
\* factors were written, and finish has run.
C36_Witness ==
  /\ demix_pc = "finished"
  /\ averager_clamps
  /\ itsNTimeChunkSubtr * itsNTimeAvgSubtr > itsNTimeChunk * itsNTimeAvg
  /\ itsNTimeAvg = info_ntime
  /\ chunks_completed >= 1
  /\ \E w \in factor_writes : w.buffer = "itsFactors"
  /\ \E w \in factor_writes : w.buffer = "itsFactorsSubtr"

\* C37: the parallel loop of demix writes the solutions of slot ts only to
\* the slice itsTimeIndex + ts of itsUnknowns, the slices of different slots
\* are disjoint, and itsTimeIndex + ts < itsNTimeDemix for every slot of
\* every chunk, the last partial chunk that finish handles included, where
\* itsTimeIndex is itsNTimeChunk times the number of chunks completed in
\* process.
C37_SlicesDisjointAndInRange ==
  /\ itsTimeIndex = itsNTimeChunk * chunks_completed
  /\ \A w \in unknown_writes :
       /\ w.timeIndex = itsNTimeChunk * w.completed
       /\ w.slice = w.timeIndex + w.ts
       /\ w.slice < w.size
       /\ w.size = itsNTimeDemix
  /\ \A w1, w2 \in unknown_writes :
       w1.slice = w2.slice => w1 = w2

\* C37 witness: the two slots of the first chunk were written, and in the
\* partial chunk that finish handles the second of two threads is about to
\* write the last slice.
C37_Witness ==
  /\ demix_pc = "finish"
  /\ chunks_completed = 1
  /\ thread_slot[maxThreads - 1] = 0
  /\ maxThreads = 2
  /\ UnknownsSlice(itsTimeIndex, 0) = itsNTimeDemix - 1
  /\ \E w1, w2 \in unknown_writes :
       /\ w1.completed = 0 /\ w2.completed = 0
       /\ w1.slice # w2.slice

\* C38: the solutions that demix produces for a chunk do not depend on the
\* number of threads nor on which thread gets which time slot: the estimate
\* that slot ts starts from is the same whichever thread takes it and
\* whichever slots that thread took before, namely the last known solutions
\* that every thread's storage is filled with before the loop.
C38_StartIndependentOfThreads ==
  \A e \in start_estimates : e.start = e.lastKnowns

(***************************************************************************)
(* The split of the baselines over the threads, OnePredict.cc:407-442      *)
(***************************************************************************)
\* largest number of baselines
MaxBaselines == 8

\* largest number of threads of the pool
MaxPoolThreads == 4

\* variant: no thread takes an extra baseline
ChunkSizeWithoutExtra(index, per_thread, remaining) == per_thread

\* lines 427-428
ChunkSize(index, per_thread, remaining) ==
  per_thread + (IF index < remaining THEN 1 ELSE 0)

\* lines 414-415
BaselinesPerThread == nBl \div n_threads
RemainingBaselines == nBl % n_threads

\* the state at line 407, for a step that threads over baselines
BaselineSplitInit ==
  /\ pc = "BaselineSplit"
  /\ split_pc = "start"
  /\ nBl \in 1..MaxBaselines
  /\ pool_threads \in 1..MaxPoolThreads
  /\ n_threads = pool_threads
  /\ thread_index = 0
  /\ first_baseline = 0
  /\ baseline_range = <<>>
  /\ split_assert_failed = FALSE

\* lines 407-425
BeginBaselineSplit ==
  /\ pc = "BaselineSplit"
  /\ split_pc = "start"
  /\ n_threads' = Min(n_threads, nBl)
  /\ baseline_range' = [index \in 0..(n_threads' - 1) |-> <<0, 0>>]
  /\ first_baseline' = 0
  /\ thread_index' = 0
  /\ split_pc' = "loop"
  /\ UNCHANGED <<nBl, pool_threads, split_assert_failed>>
  /\ UNCHANGED <<earlyVars, otherThanBaselineSplit>>

\* one iteration of the loop of lines 426-440
AssignBaselines ==
  LET chunk_size ==
        ChunkSize(thread_index, BaselinesPerThread, RemainingBaselines)
  IN /\ pc = "BaselineSplit"
     /\ split_pc = "loop"
     /\ thread_index # n_threads
     /\ baseline_range' =
          [baseline_range EXCEPT
             ![thread_index] = <<first_baseline, first_baseline + chunk_size>>]
     /\ first_baseline' = first_baseline + chunk_size
     /\ thread_index' = thread_index + 1
     /\ UNCHANGED <<split_pc, nBl, pool_threads, n_threads,
                    split_assert_failed>>
     /\ UNCHANGED <<earlyVars, otherThanBaselineSplit>>

\* the end of the loop and the assert of line 442
EndBaselineSplit ==
  /\ pc = "BaselineSplit"
  /\ split_pc = "loop"
  /\ thread_index = n_threads
  /\ split_assert_failed' = (first_baseline # nBl)
  /\ split_pc' = "done"
  /\ UNCHANGED <<nBl, pool_threads, n_threads, thread_index, first_baseline,
                 baseline_range>>
  /\ UNCHANGED <<earlyVars, otherThanBaselineSplit>>

BaselineSplitNext ==
  \/ BeginBaselineSplit
  \/ AssignBaselines
  \/ EndBaselineSplit

\* the split while it is not exercised
BaselineSplitIdle ==
  /\ split_pc = "start"
  /\ nBl = 1
  /\ pool_threads = 1
  /\ n_threads = 1
  /\ thread_index = 0
  /\ first_baseline = 0
  /\ baseline_range = <<>>
  /\ split_assert_failed = FALSE

(***************************************************************************)
(* Properties of the split of the baselines                                *)
(***************************************************************************)
\* the number of baselines of a thread
RangeSize(index) == baseline_range[index][2] - baseline_range[index][1]

\* C39: when OnePredict threads over nBl >= 1 baselines, the baseline ranges
\* of the threads are contiguous, pairwise disjoint and cover exactly
\* [0, nBl): n_threads is the smaller of the pool's threads and nBl, every
\* thread gets at least one baseline, the sizes of the ranges differ by at
\* most one, and first_baseline is nBl after the last thread, so that the
\* assert holds.
C39_BaselineRangesPartition ==
  /\ ~split_assert_failed
  /\ split_pc # "start" =>
       /\ n_threads = Min(pool_threads, nBl)
       /\ n_threads >= 1
       /\ DOMAIN baseline_range = 0..(n_threads - 1)
       /\ \A index \in 0..(thread_index - 1) :
            /\ baseline_range[index][1] =
                 (IF index = 0 THEN 0 ELSE baseline_range[index - 1][2])
            /\ RangeSize(index) >= 1
            /\ baseline_range[index][2] <= nBl
            /\ \A other \in 0..(thread_index - 1) :
                 /\ RangeSize(index) - RangeSize(other) <= 1
                 /\ other # index =>
                      \/ baseline_range[other][2] <= baseline_range[index][1]
                      \/ baseline_range[index][2] <= baseline_range[other][1]
       /\ first_baseline =
            (IF thread_index = 0 THEN 0
             ELSE baseline_range[thread_index - 1][2])
  /\ split_pc = "done" =>
       /\ thread_index = n_threads
       /\ first_baseline = nBl
       /\ \A baseline \in 0..(nBl - 1) :
            \E index \in 0..(n_threads - 1) :
              /\ baseline_range[index][1] <= baseline
              /\ baseline < baseline_range[index][2]

\* C39 witness: five baselines were split over three threads, the first two
\* of which got two baselines and the last got one.
C39_Witness ==
  /\ split_pc = "done"
  /\ nBl = 5
  /\ n_threads = 3
  /\ baseline_range[0] = <<0, 2>>
  /\ baseline_range[1] = <<2, 4>>
  /\ baseline_range[2] = <<4, 5>>

(***************************************************************************)
(* The chain of steps, DP3.cc: MakeMainSteps, MakeStepsFromParset and      *)
(* SetChainProvidedFields                                                  *)
(***************************************************************************)
\* largest number of steps in the parset
MaxParsetSteps == 3

\* number of fields that a step can provide
MaxFields == 1

FieldNames == 1..MaxFields

\* a null pointer to a step
NoStep == 0

\* the steps that a parset can name: a step that provides some fields, an
\* output step, a Split, or a null step
ParsetSteps ==
  {[kind |-> "step", provided |-> fields] : fields \in SUBSET FieldNames}
    \cup {[kind |-> kind, provided |-> {}] : kind \in {"output", "split", "null"}}

\* a step as it is after its construction
NewStep(kind, provided) ==
  [kind |-> kind, provided |-> provided, fields_to_write |-> {},
   next |-> NoStep]

\* Step::setNextStep on step index of steps
SetNextStep(steps, index, following) ==
  [steps EXCEPT ![index].next = following]

\* the loop of MakeStepsFromParset, lines 436-470, from the i-th name on:
\* steps are the steps made so far, of which the step at lastStep is the
\* last of the parset, if any
RECURSIVE MakeStepsFrom(_, _, _, _)
MakeStepsFrom(steps, names, i, lastStep) ==
  IF i > Len(names)
  THEN [threw |-> FALSE, steps |-> steps]
  ELSE LET step == Len(steps) + 1
           made == Append(steps, NewStep(names[i].kind, names[i].provided))
       IN IF lastStep = NoStep
          THEN MakeStepsFrom(made, names, i + 1, step)
          ELSE IF steps[lastStep].kind = "split" /\ split_rejects_next
          THEN [threw |-> TRUE, steps |-> made]
          ELSE MakeStepsFrom(SetNextStep(made, lastStep, step), names, i + 1,
                             step)

\* MakeStepsFromParset, lines 425-480, with terminateChain = false: the
\* steps of the parset are appended to steps; the first of them, if any, is
\* at Len(steps) + 1
MakeStepsFromParset(steps, names) == MakeStepsFrom(steps, names, 1, NoStep)

\* the last step of the chain that starts at step, as the loop of line 387
\* finds it
RECURSIVE LastOfChain(_, _)
LastOfChain(steps, step) ==
  IF steps[step].next = NoStep THEN step
  ELSE LastOfChain(steps, steps[step].next)

\* SetChainProvidedFields, lines 239-252, from step on
RECURSIVE SetChainProvidedFields(_, _, _)
SetChainProvidedFields(steps, step, provided_fields) ==
  IF step = NoStep
  THEN [steps |-> steps, provided_fields |-> provided_fields]
  ELSE IF steps[step].kind = "output"
  THEN SetChainProvidedFields(
         [steps EXCEPT ![step].fields_to_write = provided_fields],
         steps[step].next, {})
  ELSE SetChainProvidedFields(steps, steps[step].next,
                              provided_fields \cup steps[step].provided)

\* variant: an output step is added only when the parset names an output
NeedsOutputStepForNameOnly(ends, name, provided_fields) == ~ends /\ name # ""

\* lines 395 and 401
NeedsOutputStep(ends, name, provided_fields) ==
  ~ends /\ (name # "" \/ provided_fields # {})

\* the state before MakeMainSteps: a parset and an input
ChainInit ==
  /\ pc = "Chain"
  /\ chain_pc = "parset"
  /\ parset_steps \in UNION {[1..n -> ParsetSteps] : n \in 0..MaxParsetSteps}
  /\ msOutName \in {"", "out.ms"}
  /\ input_provided \in SUBSET FieldNames
  /\ split_rejects_next \in BOOLEAN
  /\ step_chain = <<>>
  /\ cursor = NoStep

\* MakeMainSteps, lines 373-423
MakeMainSteps ==
  LET input_step == 1
      \* lines 374-383
      parsed == MakeStepsFromParset(<<NewStep("input", input_provided)>>,
                                    parset_steps)
      \* lines 384-389
      linked == IF Len(parset_steps) > 0
                THEN SetNextStep(parsed.steps, input_step, input_step + 1)
                ELSE parsed.steps
      parset_last == LastOfChain(linked, input_step)
      \* line 393
      provided == SetChainProvidedFields(linked, input_step, {})
      \* line 396
      ends_with_output_step == linked[parset_last].kind = "output"
      needs_output == NeedsOutputStep(ends_with_output_step, msOutName,
                                      provided.provided_fields)
      \* lines 403-408
      output_step == Len(provided.steps) + 1
      with_output ==
        IF needs_output
        THEN SetNextStep(
               Append(provided.steps,
                      [NewStep("output", {}) EXCEPT
                         !.fields_to_write = provided.provided_fields]),
               parset_last, output_step)
        ELSE provided.steps
      last_step == IF needs_output THEN output_step ELSE parset_last
      \* lines 414-416
      terminated ==
        IF with_output[last_step].kind # "split"
        THEN SetNextStep(Append(with_output, NewStep("null", {})), last_step,
                         Len(with_output) + 1)
        ELSE with_output
  IN /\ pc = "Chain"
     /\ chain_pc = "parset"
     /\ IF parsed.threw
        THEN chain_pc' = "threw" /\ step_chain' = parsed.steps
        ELSE IF /\ needs_output
                /\ linked[parset_last].kind = "split"
                /\ split_rejects_next
        THEN chain_pc' = "threw" /\ step_chain' = provided.steps
        ELSE chain_pc' = "made" /\ step_chain' = terminated
     /\ cursor' = IF chain_pc' = "made" THEN input_step ELSE NoStep
     /\ UNCHANGED <<parset_steps, msOutName, input_provided,
                    split_rejects_next>>
     /\ UNCHANGED <<earlyVars, otherThanChain>>

\* one step of a walk along the step_chain, as the loops of lines 223-226 and
\* 241-242 take it
GetNextStep ==
  /\ pc = "Chain"
  /\ chain_pc = "made"
  /\ cursor # NoStep
  /\ cursor' = step_chain[cursor].next
  /\ UNCHANGED <<chain_pc, parset_steps, msOutName, input_provided,
                 split_rejects_next, step_chain>>
  /\ UNCHANGED <<earlyVars, otherThanChain>>

ChainNext == MakeMainSteps \/ GetNextStep

\* the chain while it is not exercised
ChainIdle ==
  /\ chain_pc = "parset"
  /\ parset_steps = <<>>
  /\ msOutName = ""
  /\ input_provided = {}
  /\ split_rejects_next = FALSE
  /\ step_chain = <<>>
  /\ cursor = NoStep

(***************************************************************************)
(* Properties of the chain of steps                                        *)
(***************************************************************************)
\* the steps that a walk from step passes, step included
RECURSIVE StepsFrom(_, _)
StepsFrom(step, fuel) ==
  IF step = NoStep \/ fuel = 0 THEN {}
  ELSE {step} \cup StepsFrom(step_chain[step].next, fuel - 1)

\* the steps of the parset after its last output step
AfterLastOutput ==
  {i \in 1..Len(parset_steps) :
     \A j \in i..Len(parset_steps) : parset_steps[j].kind # "output"}

\* the fields that some step provides and that no output step of the parset
\* has written
UnwrittenFields ==
  UNION {parset_steps[i].provided : i \in AfterLastOutput}
    \cup (IF \E i \in 1..Len(parset_steps) : parset_steps[i].kind = "output"
          THEN {} ELSE input_provided)

\* the steps of the parset end with an output step
EndsWithOutputStep ==
  /\ Len(parset_steps) > 0
  /\ parset_steps[Len(parset_steps)].kind = "output"

\* an output step was appended after the steps of the parset
OutputStepAppended ==
  /\ Len(step_chain) >= Len(parset_steps) + 2
  /\ step_chain[Len(parset_steps) + 2].kind = "output"

\* C40: the chain that MakeMainSteps returns is safely terminated: following
\* getNextStep() from the input step reaches, after finitely many steps,
\* either a NullStep or a Split as the last step, so that every other step
\* has a next step; and an output step is appended after the steps of the
\* parset exactly when these do not end with an output step and either an
\* msout name is given or some step provides fields that no output step has
\* written.
C40_ChainTerminated ==
  chain_pc = "made" =>
    LET walked == StepsFrom(1, Len(step_chain))
        last == LastOfChain(step_chain, 1)
    IN /\ step_chain[1].kind = "input"
       /\ walked = 1..Len(step_chain)
       /\ Cardinality({step \in walked : step_chain[step].next = NoStep}) = 1
       /\ step_chain[last].next = NoStep
       /\ step_chain[last].kind \in {"null", "split"}
       /\ \A step \in walked \ {last} : step_chain[step].next \in walked
       /\ \A i \in 1..Len(parset_steps) :
            step_chain[i + 1].kind = parset_steps[i].kind
       /\ OutputStepAppended <=>
            /\ ~EndsWithOutputStep
            /\ (msOutName # "" \/ UnwrittenFields # {})
       /\ OutputStepAppended =>
            step_chain[Len(parset_steps) + 2].fields_to_write = UnwrittenFields
       /\ cursor \in walked \cup {NoStep}

\* C40 witness: the parset names an output step and after it a step that
\* provides a field, and no msout name; an output step for the field and a
\* null step were appended, and a walk from the input step has arrived at
\* the null step.
C40_Witness ==
  /\ chain_pc = "made"
  /\ msOutName = ""
  /\ Len(parset_steps) = 2
  /\ parset_steps[1].kind = "output"
  /\ parset_steps[2].kind = "step"
  /\ parset_steps[2].provided # {}
  /\ Len(step_chain) = 5
  /\ step_chain[4].kind = "output"
  /\ step_chain[4].fields_to_write = parset_steps[2].provided
  /\ step_chain[5].kind = "null"
  /\ cursor = 5

\* the further steps while they are not exercised
LateIdle ==
  MultiResultIdle /\ DemixerIdle /\ BaselineSplitIdle /\ ChainIdle

(***************************************************************************)
(* Specifications                                                          *)
(***************************************************************************)
Init ==
  EngineInit /\ SolveIdle /\ DriverIdle /\ PartitionIdle /\ MeasuresIdle
  /\ IntervalIdle /\ PipelineIdle /\ LateIdle

Next == EngineNext

\* the stopping criterion, its setters and the loop over it
Spec == Init /\ [][Next]_vars

\* The loop body always runs to its end: an iteration that can be taken is
\* taken.
FairSpec == Spec /\ WF_vars(IterateAny)

\* one solve with its parallel block tasks
SolveSpecInit == SolveInit /\ DriverIdle /\ PartitionIdle /\ MeasuresIdle
  /\ IntervalIdle /\ PipelineIdle /\ LateIdle

\* the solution intervals of one observation, solved in order
DriverSpecInit == DriverInit /\ SolveIdle /\ PartitionIdle /\ MeasuresIdle
  /\ IntervalIdle /\ PipelineIdle /\ LateIdle

DriverSpec == DriverSpecInit /\ [][DriverNext]_vars

SolveSpec == SolveSpecInit /\ [][SolveNext]_vars

\* updateInfo for the infos of the observations
PartitionSpecInit ==
  PartitionInit /\ EngineIdle /\ SolveIdle /\ DriverIdle /\ MeasuresIdle
  /\ IntervalIdle /\ PipelineIdle /\ LateIdle

PartitionSpec == PartitionSpecInit /\ [][PartitionNext]_vars

\* predict steps that process one buffer each at the same time
MeasuresSpecInit ==
  MeasuresInit /\ EngineIdle /\ SolveIdle /\ DriverIdle /\ PartitionIdle
  /\ IntervalIdle /\ PipelineIdle /\ LateIdle

MeasuresSpec == MeasuresSpecInit /\ [][MeasuresNext]_vars

\* one SolutionInterval and the buffers pushed into it
IntervalSpecInit ==
  IntervalInit /\ EngineIdle /\ SolveIdle /\ DriverIdle /\ PartitionIdle
  /\ MeasuresIdle /\ PipelineIdle /\ LateIdle

IntervalSpec == IntervalSpecInit /\ [][IntervalNext]_vars

\* one BdaDdeCal step from its parset to finish
PipelineSpecInit ==
  PipelineInit /\ EngineIdle /\ SolveIdle /\ DriverIdle /\ PartitionIdle
  /\ MeasuresIdle /\ IntervalIdle /\ LateIdle

PipelineSpec == PipelineSpecInit /\ [][PipelineNext]_vars

\* the other groups of variables while one of the further steps runs
EarlyIdle ==
  /\ EngineIdle /\ SolveIdle /\ DriverIdle /\ PartitionIdle
  /\ MeasuresIdle /\ IntervalIdle /\ PipelineIdle

\* one MultiResultStep and the buffers handed to it
MultiResultSpecInit ==
  /\ MultiResultInit /\ EarlyIdle
  /\ DemixerIdle /\ BaselineSplitIdle /\ ChainIdle

MultiResultSpec == MultiResultSpecInit /\ [][MultiResultNext]_vars

\* one Demixer, from its construction to the end of finish
DemixerSpecInit ==
  /\ DemixerInit /\ EarlyIdle
  /\ MultiResultIdle /\ BaselineSplitIdle /\ ChainIdle

DemixerSpec == DemixerSpecInit /\ [][DemixerNext]_vars

\* the split of the baselines of one call of OnePredict::process
BaselineSplitSpecInit ==
  /\ BaselineSplitInit /\ EarlyIdle
  /\ MultiResultIdle /\ DemixerIdle /\ ChainIdle

BaselineSplitSpec == BaselineSplitSpecInit /\ [][BaselineSplitNext]_vars

\* the chain of steps made for one parset, and a walk along it
ChainSpecInit ==
  /\ ChainInit /\ EarlyIdle
  /\ MultiResultIdle /\ DemixerIdle /\ BaselineSplitIdle

ChainSpec == ChainSpecInit /\ [][ChainNext]_vars
====
